---- MODULE Spec2Model ----
(***************************************************************************)
(* Agent Context Explorer: the artifact scanners (extension and standalone *)
(* MCP server), the aggregation performed by refreshData, and the tree     *)
(* provider's backing data.                                                *)
(*                                                                         *)
(* Two specifications share the module:                                    *)
(*   SpecScan  one scanner call at a time, on a directory or file drawn    *)
(*             from bounded sets (the scanners are pure reads);            *)
(*   Spec      overlapping runs of refreshData over a changing disk.       *)
(***************************************************************************)
EXTENDS Integers, Sequences, FiniteSets, TLC

VARIABLES
    call,           \* SpecScan: the last scanner call, its input and outcome
    workspaceRoot,  \* vscode.workspace.workspaceFolders?.[0]?.uri, or NoRoot
    disk,           \* what each location (a project root, the home) holds
    changes,        \* number of changes made to the disk so far
    events,         \* watcher events fired and not yet handled
    pc,             \* where each run of refreshData stands
    idx,            \* per run: the index of the project whose scan is awaited
    globals,        \* per run: [globalCommands, globalSkills]
    globalScans,    \* per run: calls made to each of the two global scans
    rejected,       \* per run: the current workspace's scan rejected
    maps,           \* the heap of Map objects: identity -> (key -> entry)
    writers,        \* per Map object: the runs that called set on it
    tree,           \* ProjectTreeProvider: projectData, projects, currentProject
    applyLog,       \* the runs that called treeProvider.updateData, in order
    isActivated,    \* extension.ts: let isActivated
    fileWatcher,    \* extension.ts: let fileWatcher, a watcher set or 0
    watcherSets,    \* every set of workspace watchers created so far
    subscriptions,  \* the watcher handles pushed to context.subscriptions
    lastCall        \* SpecLife: the last call made to the extension

scanVars == <<call>>
lifeVars == <<isActivated, fileWatcher, watcherSets, subscriptions, lastCall>>
refreshVars == <<workspaceRoot, disk, changes, events, pc, idx, globals,
                 globalScans, rejected, maps, writers, tree, applyLog, lifeVars>>
vars == <<call, workspaceRoot, disk, changes, events, pc, idx, globals,
          globalScans, rejected, maps, writers, tree, applyLog, lifeVars>>

\* ------------------------------------------------------------------ bounds
\* Largest number of entries in a scanned directory.
MaxFiles == 2
\* Number of refreshData runs in one behaviour.
MaxRefresh == 2
\* Number of changes made to the disk in one behaviour.
MaxChanges == 1
\* Largest number of lines of a constitution file.
MaxLines == 3
\* The number of lines under the "Operational Boundaries" heading.
MaxTierLines == 4
\* The latest time, in clock ticks, at which a query is made.
MaxClock == 2
\* The number of workspace watcher sets created in a behaviour, and the number
\* of times one handle is disposed.
MaxActivations == 3
MaxDisposals == 3

\* ------------------------------------------------------------ sentinels
ErrorReadingContent == "Error reading file content"
ErrorParsingFile == "Error parsing file"
Undefined == "undefined"

\* ---------------------------------------------------------------- helpers
SeqsUpTo(S, n) == UNION {[1..k -> S] : k \in 0..n}

DistinctNames(s) == \A i, j \in 1..Len(s) : i # j => s[i].name # s[j].name

Last(s) == s[Len(s)]

\* No scanner call has been made.
NoCall == [op |-> "none"]

\* The outcome of an asynchronous call: a value, or a rejection.
Ok(v) == [threw |-> FALSE, val |-> v]
Threw == [threw |-> TRUE]

\* ------------------------------------------------------------- filesystem
\* A node of the disk, as stat and read see it:
\*   absent      stat rejects (no such file)
\*   denied      stat rejects (permission)
\*   file        a regular, readable file
\*   unreadable  a regular file whose read rejects
\*   dir         a directory that can be listed
\*   unlistable  a directory whose listing rejects
NodeKinds == {"absent", "denied", "file", "unreadable", "dir", "unlistable"}

StatRejects(kind) == kind \in {"absent", "denied"}

FileType(kind) ==
    IF kind \in {"file", "unreadable"} THEN "File" ELSE "Directory"

ReadRejects(kind) == kind # "file"

\* fs.readdir of the standalone server rejects unless the node is a listable
\* directory.
ReaddirRejects(kind) == kind # "dir"

\* vscode.workspace.findFiles: no match when the directory is missing, a
\* rejection when the search itself fails.
FindFilesRejects(kind) == kind = "denied"

FileName(base, ext) == [base |-> base, ext |-> ext]

\* Entries of a flat directory (.cursor/commands, .cursor/rules, schemas).
FileEntries(bases, exts) ==
    [name : {FileName(b, e) : b \in bases, e \in exts},
     type : {"file", "dir"},
     readable : BOOLEAN]

Directories(bases, exts) ==
    {[kind |-> k, entries |-> <<>>] : k \in NodeKinds \ {"dir"}}
    \cup {[kind |-> "dir", entries |-> es] :
            es \in {s \in SeqsUpTo(FileEntries(bases, exts), MaxFiles) :
                      DistinctNames(s)}}

\* What a readable file holds: its text is a function of the file.
ContentOf(name) == <<"content of", name.base, name.ext>>

\* The files findFiles yields for a one-level pattern "*.<ext>".
findFiles(dir, exts) ==
    IF dir.kind # "dir" THEN <<>>
    ELSE SelectSeq(dir.entries,
                   LAMBDA e : e.type = "file" /\ e.name.ext \in exts)

\* ------------------------------------------- CommandsScanner (extension)
\* One loop iteration of scanWorkspaceCommands: the record of a read file,
\* or the placeholder pushed by the inner catch.
CommandRecord(file, location) ==
    IF file.readable
    THEN [uri |-> file.name, content |-> ContentOf(file.name),
          fileName |-> file.name, location |-> location]
    ELSE [uri |-> file.name, content |-> ErrorReadingContent,
          fileName |-> file.name, location |-> location]

scanWorkspaceCommands(dir) ==
    IF FindFilesRejects(dir.kind) THEN Ok(<<>>)
    ELSE LET files == findFiles(dir, {"md"})
         IN  Ok([i \in 1..Len(files) |-> CommandRecord(files[i], "workspace")])

\* scanGlobalCommands scans ~/.cursor/commands the same way and tags the
\* records "global".
scanGlobalCommands(dir) ==
    IF StatRejects(dir.kind) \/ FindFilesRejects(dir.kind) THEN Ok(<<>>)
    ELSE LET files == findFiles(dir, {"md"})
         IN  Ok([i \in 1..Len(files) |-> CommandRecord(files[i], "global")])

\* ---------------------------------------------- SkillsScanner (extension)
\* .cursor/skills holds one subdirectory per skill; SKILL.md inside it is
\* absent, a readable file or an unreadable file.
SkillEntries(bases) ==
    [name : bases, type : {"file", "dir"},
     skillMd : {"absent", "file", "unreadable"}]

SkillDirectories(bases) ==
    {[kind |-> k, entries |-> <<>>] : k \in NodeKinds \ {"dir"}}
    \cup {[kind |-> "dir", entries |-> es] :
            es \in {s \in SeqsUpTo(SkillEntries(bases), MaxFiles) :
                      DistinctNames(s)}}

\* findFiles for "*/SKILL.md".
findSkillFiles(dir) ==
    IF dir.kind # "dir" THEN <<>>
    ELSE SelectSeq(dir.entries,
                   LAMBDA e : e.type = "dir" /\ e.skillMd # "absent")

SkillContentOf(name) == <<"content of", name, "SKILL.md">>

\* parseSKILLMetadata reads the text only.
SkillMetadataOf(name) == <<"metadata of", SkillContentOf(name)>>

\* The text of a SKILL.md, as parseSKILLMetadata reads it:
\*   frontmatter  "absent", "empty" (a block without keys), "malformed" (the
\*                YAML does not parse) or "keys";
\*   data         the keys of the block, each with the kind of its value;
\*   heading      the text of the first line "# text", or "none".
SkillDataKeys == {"title", "steps", "guidance", "author"}

SkillContents ==
    {[frontmatter |-> f, data |-> <<>>, heading |-> h] :
        f \in {"absent", "empty", "malformed"}, h \in {"none", "Deploy"}}
    \cup {[frontmatter |-> "keys", data |-> d, heading |-> h] :
            d \in UNION {[ks -> {"text", "list"}] :
                           ks \in (SUBSET SkillDataKeys) \ {{}}},
            h \in {"none", "Deploy"}}

RecognisedSkillKeys ==
    {"title", "overview", "prerequisites", "steps", "tools", "guidance"}

\* The keys kept only when Array.isArray holds of their value.
ListSkillKeys == {"prerequisites", "steps", "tools"}

NoSkillMetadata == [present |-> FALSE]

\* content.match(/^#\s+(.+)$/m): the title from the first heading, or
\* undefined.
titleFromHeading(content) ==
    IF content.heading # "none"
    THEN [present |-> TRUE, value |-> [title |-> content.heading]]
    ELSE NoSkillMetadata

\* parseSKILLMetadata returning an object without fields where it returns
\* undefined.
parseSKILLMetadata_emptyObject(content) ==
    IF content.frontmatter = "keys"
    THEN [present |-> TRUE,
          value |-> [k \in {x \in DOMAIN content.data \cap RecognisedSkillKeys :
                              x \in ListSkillKeys => content.data[x] = "list"}
                       |-> content.data[k]]]
    ELSE IF content.heading # "none" THEN titleFromHeading(content)
    ELSE [present |-> TRUE, value |-> [k \in {} |-> k]]

\* parseSKILLMetadata: matter(content) throws on malformed YAML, which the
\* catch block answers with the heading; without keys the heading is used;
\* with keys the six recognised fields are copied, and a field left undefined
\* is left out of the record.
parseSKILLMetadata(content) ==
    IF content.frontmatter = "malformed" THEN titleFromHeading(content)
    ELSE IF content.frontmatter # "keys" THEN titleFromHeading(content)
    ELSE [present |-> TRUE,
          value |-> [k \in {x \in DOMAIN content.data \cap RecognisedSkillKeys :
                              x \in ListSkillKeys => content.data[x] = "list"}
                       |-> content.data[k]]]

SkillRecord(e, location) ==
    IF e.skillMd = "file"
    THEN [uri |-> e.name, content |-> SkillContentOf(e.name),
          fileName |-> e.name, location |-> location,
          metadata |-> SkillMetadataOf(e.name)]
    ELSE [uri |-> e.name, content |-> ErrorReadingContent,
          fileName |-> e.name, location |-> location]

scanWorkspaceSkills(dir) ==
    IF FindFilesRejects(dir.kind) THEN Ok(<<>>)
    ELSE LET files == findSkillFiles(dir)
         IN  Ok([i \in 1..Len(files) |-> SkillRecord(files[i], "workspace")])

scanGlobalSkills(dir) ==
    IF StatRejects(dir.kind) THEN Ok(<<>>)
    ELSE IF FindFilesRejects(dir.kind) THEN Ok(<<>>)
    ELSE LET files == findSkillFiles(dir)
         IN  Ok([i \in 1..Len(files) |-> SkillRecord(files[i], "global")])

\* ------------------------------------------------------------ rule files
\* The frontmatter of a rule file, as written: the alwaysApply line is
\* "alwaysApply: true", "alwaysApply: false" or missing; the globs line is
\* missing, "globs: []" or "globs: ["*.ts"]".
RuleFrontmatters ==
    [alwaysApply : {"true", "false", "absent"},
     globs : {"absent", "empty", "inline"}]

\* The frontmatters given to the files of a scanned directory.
DirFrontmatters ==
    {[alwaysApply |-> "true", globs |-> "inline"],
     [alwaysApply |-> "false", globs |-> "absent"]}

RuleEntries(bases, exts, fms) ==
    [name : {FileName(b, e) : b \in bases, e \in exts},
     type : {"file", "dir"},
     readable : BOOLEAN,
     fm : fms]

RuleDirectories(bases, exts, fms) ==
    {[kind |-> k, entries |-> <<>>] : k \in NodeKinds \ {"dir"}}
    \cup {[kind |-> "dir", entries |-> es] :
            es \in {s \in SeqsUpTo(RuleEntries(bases, exts, fms), MaxFiles) :
                      DistinctNames(s)}}

\* ----------------------------------------------- RulesScanner (extension)
RuleMetadataOf(name) == [description |-> <<"description of", name.base, name.ext>>]

RuleRecord(file) ==
    IF file.readable
    THEN [uri |-> file.name, fileName |-> file.name,
          metadata |-> RuleMetadataOf(file.name),
          content |-> ContentOf(file.name)]
    ELSE [uri |-> file.name, fileName |-> file.name,
          metadata |-> [description |-> ErrorParsingFile],
          content |-> ErrorReadingContent]

\* The files under a list of directory entries, at every depth: a
\* subdirectory contributes the files under its children.
RECURSIVE walkFiles(_, _)
walkFiles(entries, exts) ==
    IF entries = <<>> THEN <<>>
    ELSE LET e == Head(entries)
             here == IF e.type = "file"
                     THEN IF e.name.ext \in exts THEN <<e>> ELSE <<>>
                     ELSE IF "children" \in DOMAIN e
                          THEN walkFiles(e.children, exts)
                          ELSE <<>>
         IN  here \o walkFiles(Tail(entries), exts)

\* findFiles for the recursive pattern "**/.cursor/rules/**/*.{mdc,md}".
findFilesDeep(dir, exts) ==
    IF dir.kind # "dir" THEN <<>> ELSE walkFiles(dir.entries, exts)

RulesScanner_scanRules(dir) ==
    IF FindFilesRejects(dir.kind) THEN Ok(<<>>)
    ELSE LET files == findFilesDeep(dir, {"mdc", "md"})
         IN  Ok([i \in 1..Len(files) |-> RuleRecord(files[i])])

\* ------------------------------------------ standalone MCP server scanners
mcp_isRuleFile(file) == file.type = "file" /\ file.name.ext \in {"mdc", "md"}

mcp_isCommandFile(file) ==
    /\ file.type = "file"
    /\ file.name.ext = "md"
    /\ file.name # FileName("README", "md")

\* /alwaysApply:\s*true/i.test(frontmatter)
mcp_alwaysApply(fm) == fm.alwaysApply = "true"

\* frontmatter.match(/globs:\s*\[(.*?)\]/): whether the line matches.
mcp_globsMatch(fm) == fm.globs \in {"empty", "inline"}

\* globsMatch[1].split(',').map(trim, strip quotes): splitting the empty
\* string yields one empty string.
mcp_globs(fm) == IF fm.globs = "empty" THEN <<"">> ELSE <<"*.ts">>

\* alwaysApply ? 'always' : (globs && globs.length > 0) ? 'glob' : 'manual'
mcp_ruleType(fm) ==
    IF mcp_alwaysApply(fm) THEN "always"
    ELSE IF mcp_globsMatch(fm) /\ Len(mcp_globs(fm)) > 0 THEN "glob"
    ELSE "manual"

mcp_RuleInfo(file) ==
    IF mcp_globsMatch(file.fm)
    THEN [name |-> file.name.base, path |-> file.name,
          description |-> RuleMetadataOf(file.name).description,
          type |-> mcp_ruleType(file.fm), globs |-> mcp_globs(file.fm)]
    ELSE [name |-> file.name.base, path |-> file.name,
          description |-> RuleMetadataOf(file.name).description,
          type |-> mcp_ruleType(file.fm)]

\* A parsed rule, as toRuleInfo receives it: alwaysApply and globs are
\* optional fields of the metadata.
RuleMetadatas ==
    LET d == [description : {"a rule"}]
        withAlways == [description : {"a rule"}, alwaysApply : BOOLEAN]
        withGlobs == [description : {"a rule"}, globs : {<<>>, <<"*.ts">>}]
        withBoth == [description : {"a rule"}, alwaysApply : BOOLEAN,
                     globs : {<<>>, <<"*.ts">>}]
    IN  d \cup withAlways \cup withGlobs \cup withBoth

Rules ==
    {[uri |-> FileName("a", "mdc"), fileName |-> FileName("a", "mdc"),
      metadata |-> md, content |-> ContentOf(FileName("a", "mdc"))] :
        md \in RuleMetadatas}

\* toRuleInfo: the type is derived from the metadata.
toRuleInfo(rule) ==
    LET md == rule.metadata
        always == "alwaysApply" \in DOMAIN md /\ md.alwaysApply
        hasGlobs == "globs" \in DOMAIN md /\ Len(md.globs) > 0
        type == IF always THEN "always"
                ELSE IF hasGlobs THEN "glob" ELSE "manual"
    IN  IF "globs" \in DOMAIN md
        THEN [name |-> rule.fileName.base, description |-> md.description,
              type |-> type, path |-> rule.uri, globs |-> md.globs]
        ELSE [name |-> rule.fileName.base, description |-> md.description,
              type |-> type, path |-> rule.uri]

mcp_CommandInfo(file, location) ==
    [name |-> file.name.base, path |-> file.name,
     description |-> <<"description of", ContentOf(file.name)>>,
     location |-> location]

\* The for loop of scanRules: readFile is awaited inside the one try block
\* that surrounds the loop, so a rejected read leaves the loop.
RECURSIVE mcp_rulesLoop(_, _)
mcp_rulesLoop(files, rules) ==
    IF files = <<>> THEN rules
    ELSE LET file == Head(files)
         IN  IF mcp_isRuleFile(file)
             THEN IF ~file.readable THEN rules
                  ELSE mcp_rulesLoop(Tail(files), Append(rules, mcp_RuleInfo(file)))
             ELSE mcp_rulesLoop(Tail(files), rules)

mcp_scanRules(dir) ==
    IF ReaddirRejects(dir.kind) THEN Ok(<<>>)
    ELSE Ok(mcp_rulesLoop(dir.entries, <<>>))

RECURSIVE mcp_commandsLoop(_, _, _)
mcp_commandsLoop(files, commands, location) ==
    IF files = <<>> THEN commands
    ELSE LET file == Head(files)
         IN  IF mcp_isCommandFile(file)
             THEN IF ~file.readable THEN commands
                  ELSE mcp_commandsLoop(Tail(files),
                           Append(commands, mcp_CommandInfo(file, location)),
                           location)
             ELSE mcp_commandsLoop(Tail(files), commands, location)

\* scanCommands: the workspace directory, then the home directory, each in
\* its own try block, appended to one list.
mcp_scanCommands(dir, globalDir) ==
    LET workspace == IF ReaddirRejects(dir.kind) THEN <<>>
                     ELSE mcp_commandsLoop(dir.entries, <<>>, "workspace")
    IN  Ok(IF ReaddirRejects(globalDir.kind) THEN workspace
           ELSE mcp_commandsLoop(globalDir.entries, workspace, "global"))

\* -------------------------------------------------- AsdlcArtifactScanner
\* AGENTS.md: a node and, when it is a file, its lines, as content.split('\n')
\* yields them. A line has
\*   level   the number of '#' it starts with (followed by a blank and a text),
\*           0 when it is not written as a heading;
\*   title   the text of a heading, or of a bullet item;
\*   cr      whether the line ends with a carriage return (a file with CRLF
\*           line endings, split at '\n');
\*   bullet  the bold label of a bullet item "- **LABEL** text", or "none".
HeadingLine(level, title) ==
    [level |-> level, title |-> title, cr |-> FALSE, bullet |-> "none"]

CrHeadingLine(level, title) ==
    [level |-> level, title |-> title, cr |-> TRUE, bullet |-> "none"]

BulletLine(label, text) ==
    [level |-> 0, title |-> text, cr |-> FALSE, bullet |-> label]

\* The lines constitution files are made of.
ConstitutionLines ==
    {HeadingLine(2, "Operational Boundaries"),
     CrHeadingLine(2, "Operational Boundaries"),
     HeadingLine(2, "Tech Stack"),
     HeadingLine(3, "Tier 1 (ALWAYS)"),
     HeadingLine(3, "Tier 2 (ASK)"),
     HeadingLine(3, "Tier 3 (NEVER)"),
     BulletLine("ALWAYS", "use strict types"),
     BulletLine("ASK", "before adding dependencies"),
     BulletLine("NEVER", "commit secrets"),
     HeadingLine(0, "")}

AgentsContents ==
    {<<HeadingLine(0, "")>>,
     <<HeadingLine(1, "AGENTS"), HeadingLine(0, ""), HeadingLine(2, "Tech Stack")>>}

AgentsNodes ==
    {[kind |-> k, content |-> <<>>] : k \in NodeKinds \ {"file"}}
    \cup {[kind |-> "file", content |-> c] : c \in AgentsContents}

\* emptyAgentsMdInfo carrying the path of the file that was looked for.
emptyAgentsMdInfo_withPath ==
    [exists |-> FALSE, path |-> "AGENTS.md", sections |-> <<>>]

emptyAgentsMdInfo == [exists |-> FALSE, sections |-> <<>>]

emptySpecsInfo == [exists |-> FALSE, specs |-> <<>>]

emptySchemasInfo == [exists |-> FALSE, schemas |-> <<>>]

\* line.match(/^(#{1,6})\s+(.+)$/): '.' does not match a carriage return and
\* '$' is the end of the line's text, so a heading line that ends with '\r'
\* does not match.
headingMatch(line) == line.level > 0 /\ ~line.cr

\* parseSections: one section per heading line, closed by the next heading.
RECURSIVE parseSections(_, _, _, _)
parseSections(lines, i, current, sections) ==
    IF i > Len(lines)
    THEN IF current = <<>> THEN sections ELSE Append(sections, current[1])
    ELSE IF headingMatch(lines[i])
         THEN parseSections(lines, i + 1,
                  <<[level |-> lines[i].level, title |-> lines[i].title,
                     startLine |-> i - 1, endLine |-> Len(lines) - 1]>>,
                  IF current = <<>> THEN sections
                  ELSE Append(sections, [current[1] EXCEPT !.endLine = i - 2]))
         ELSE parseSections(lines, i + 1, current, sections)

\* The least index from `from` on whose element satisfies Test, 0 if none.
FirstFrom(seq, from, Test(_)) ==
    IF \E i \in from..Len(seq) : Test(seq[i])
    THEN CHOOSE i \in from..Len(seq) :
             /\ Test(seq[i])
             /\ \A j \in from..(i - 1) : ~Test(seq[j])
    ELSE 0

\* title.toLowerCase().includes(...)
TitleIncludesBoundaries(title) == title = "Operational Boundaries"
TitleIncludesTechStack(title) == title = "Tech Stack"

\* The heading text the tier pattern `###?\s*<tier k>[^\n]*<name>[^\n]*`
\* looks for.
TierTitle(tierKeyword, tierName) ==
    CASE tierKeyword = "tier 1" /\ tierName = "always" -> "Tier 1 (ALWAYS)"
      [] tierKeyword = "tier 2" /\ tierName = "ask" -> "Tier 2 (ASK)"
      [] tierKeyword = "tier 3" /\ tierName = "never" -> "Tier 3 (NEVER)"
      [] OTHER -> "no such heading"

\* extractTierItems reading on to the end of the section.
extractTierItems_toEnd(content, tierKeyword, tierName) ==
    LET isTier(l) == l.level >= 2 /\ l.title = TierTitle(tierKeyword, tierName)
        t == FirstFrom(content, 1, isTier)
        bullets == SelectSeq(SubSeq(content, t + 1, Len(content)),
                             LAMBDA l : l.bullet # "none")
    IN  IF t = 0 THEN <<>>
        ELSE [i \in 1..Len(bullets) |-> bullets[i].title]

\* extractTierItems: the bold-labelled bullets after the tier's heading, up to
\* the next line written as a heading of level 2 or 3.
extractTierItems(content, tierKeyword, tierName) ==
    LET isTier(l) == l.level >= 2 /\ l.title = TierTitle(tierKeyword, tierName)
        isNext(l) == l.level \in {2, 3}
        t == FirstFrom(content, 1, isTier)
        n == FirstFrom(content, t + 1, isNext)
        tierContent == SubSeq(content, t + 1, IF n = 0 THEN Len(content) ELSE n - 1)
        bullets == SelectSeq(tierContent, LAMBDA l : l.bullet # "none")
    IN  IF t = 0 THEN <<>>
        ELSE [i \in 1..Len(bullets) |-> bullets[i].title]

\* The lines of the section found by title, up to the line before the next
\* section of level 2 (lines.slice(startLine, endLine + 1)).
sectionContent(content, sections, at) ==
    LET isH2(sec) == sec.level = 2
        nextH2 == FirstFrom(sections, at + 1, isH2)
        endLine == IF nextH2 = 0 THEN Len(content) - 1
                   ELSE sections[nextH2].startLine - 1
    IN  SubSeq(content, sections[at].startLine + 1, endLine + 1)

\* extractOperationalBoundaries, called when the section exists: the three
\* tier lists.
extractOperationalBoundaries(content, sections) ==
    LET has(sec) == TitleIncludesBoundaries(sec.title)
        body == sectionContent(content, sections, FirstFrom(sections, 1, has))
    IN  [tier1Always |-> extractTierItems(body, "tier 1", "always"),
         tier2Ask |-> extractTierItems(body, "tier 2", "ask"),
         tier3Never |-> extractTierItems(body, "tier 3", "never")]

\* extractTechStack, called when the section exists; the lists are read from
\* the section's lines.
extractTechStack(content, sections) ==
    LET has(sec) == TitleIncludesTechStack(sec.title)
    IN  <<"tech stack of",
          sectionContent(content, sections, FirstFrom(sections, 1, has))>>

\* parseAgentsMd. A field the code sets to undefined is left out of the
\* record. mission and corePhilosophy are taken from blockquote lines, which
\* the lines modelled here do not include.
parseAgentsMd(content, path) ==
    LET sections == parseSections(content, 1, <<>>, <<>>)
        hasTech == \E i \in 1..Len(sections) :
                       TitleIncludesTechStack(sections[i].title)
        hasBounds == \E i \in 1..Len(sections) :
                         TitleIncludesBoundaries(sections[i].title)
    IN  CASE hasTech /\ hasBounds ->
               [exists |-> TRUE, path |-> path, sections |-> sections,
                techStack |-> extractTechStack(content, sections),
                operationalBoundaries |->
                    extractOperationalBoundaries(content, sections)]
          [] hasTech /\ ~hasBounds ->
               [exists |-> TRUE, path |-> path, sections |-> sections,
                techStack |-> extractTechStack(content, sections)]
          [] ~hasTech /\ hasBounds ->
               [exists |-> TRUE, path |-> path, sections |-> sections,
                operationalBoundaries |->
                    extractOperationalBoundaries(content, sections)]
          [] OTHER ->
               [exists |-> TRUE, path |-> path, sections |-> sections]

scanAgentsMd(node) ==
    IF StatRejects(node.kind) THEN Ok(emptyAgentsMdInfo)
    ELSE IF FileType(node.kind) # "File" THEN Ok(emptyAgentsMdInfo)
    ELSE IF ReadRejects(node.kind) THEN Ok(emptyAgentsMdInfo)
    ELSE Ok(parseAgentsMd(node.content, "AGENTS.md"))

\* specs/: every entry is a file or a subdirectory; a subdirectory holds a
\* spec.md node and, when that is a readable file, its two section flags.
SpecEntries(bases) ==
    [name : bases, type : {"file", "dir"},
     specMd : {"absent", "file", "unreadable", "dir"},
     blueprint : BOOLEAN, contract : BOOLEAN]

SpecsNodes(bases) ==
    {[kind |-> k, entries |-> <<>>] : k \in NodeKinds \ {"dir"}}
    \cup {[kind |-> "dir", entries |-> es] :
            es \in {s \in SeqsUpTo(SpecEntries(bases), MaxFiles) :
                      DistinctNames(s)}}

hasSpecFile(e) ==
    /\ e.type = "dir"
    /\ ~StatRejects(e.specMd)
    /\ FileType(e.specMd) = "File"
    /\ ~ReadRejects(e.specMd)

SpecFile(e) ==
    [domain |-> e.name, path |-> <<"specs", e.name, "spec.md">>,
     hasBlueprint |-> e.blueprint, hasContract |-> e.contract,
     lastModified |-> <<"mtime of", e.name>>]

findSpecFiles(node) ==
    IF node.kind # "dir" THEN <<>>
    ELSE LET found == SelectSeq(node.entries, hasSpecFile)
         IN  [i \in 1..Len(found) |-> SpecFile(found[i])]

\* scanSpecs without its catch block: the rejection of stat reaches the caller.
scanSpecs_uncaught(node) ==
    IF StatRejects(node.kind) THEN Threw
    ELSE IF FileType(node.kind) # "Directory" THEN Ok(emptySpecsInfo)
    ELSE Ok([exists |-> TRUE, path |-> "specs", specs |-> findSpecFiles(node)])

scanSpecs(node) ==
    IF StatRejects(node.kind) THEN Ok(emptySpecsInfo)
    ELSE IF FileType(node.kind) # "Directory" THEN Ok(emptySpecsInfo)
    ELSE Ok([exists |-> TRUE, path |-> "specs", specs |-> findSpecFiles(node)])

\* schemas/: the JSON text of a schema file either fails to parse, or parses
\* with "$id", with "id" only, or with neither.
SchemaEntries(bases) ==
    [name : {FileName(b, e) : b \in bases, e \in {"json", "md"}},
     type : {"file", "dir"},
     readable : BOOLEAN,
     json : {"invalid", "$id", "id", "none"}]

SchemasNodes(bases) ==
    {[kind |-> k, entries |-> <<>>] : k \in NodeKinds \ {"dir"}}
    \cup {[kind |-> "dir", entries |-> es] :
            es \in {s \in SeqsUpTo(SchemaEntries(bases), MaxFiles) :
                      DistinctNames(s)}}

extractSchemaId(e) ==
    IF e.json \in {"$id", "id"} THEN <<e.json, "of", e.name.base>>
    ELSE Undefined

SchemaFile(e) ==
    IF e.readable
    THEN [name |-> e.name, path |-> <<"schemas", e.name>>,
          schemaId |-> extractSchemaId(e)]
    ELSE [name |-> e.name, path |-> <<"schemas", e.name>>]

\* findSchemaFiles leaving out the files whose content does not parse.
findSchemaFiles_dropInvalid(node) ==
    IF node.kind # "dir" THEN <<>>
    ELSE LET found == SelectSeq(node.entries,
                          LAMBDA e : /\ e.type = "file"
                                     /\ e.name.ext = "json"
                                     /\ e.json # "invalid")
         IN  [i \in 1..Len(found) |-> SchemaFile(found[i])]

findSchemaFiles(node) ==
    IF node.kind # "dir" THEN <<>>
    ELSE LET found == SelectSeq(node.entries,
                          LAMBDA e : e.type = "file" /\ e.name.ext = "json")
         IN  [i \in 1..Len(found) |-> SchemaFile(found[i])]

scanSchemas(node) ==
    IF StatRejects(node.kind) THEN Ok(emptySchemasInfo)
    ELSE IF FileType(node.kind) # "Directory" THEN Ok(emptySchemasInfo)
    ELSE Ok([exists |-> TRUE, path |-> "schemas",
             schemas |-> findSchemaFiles(node)])

\* scanAll with the schemas flag left out of hasAnyArtifacts.
scanAll_withoutSchemas(root) ==
    LET agentsMd == scanAgentsMd(root.agentsMd)
        specs == scanSpecs(root.specs)
        schemas == scanSchemas(root.schemas)
    IN  IF agentsMd.threw \/ specs.threw \/ schemas.threw THEN Threw
        ELSE Ok([agentsMd |-> agentsMd.val,
                 specs |-> specs.val,
                 schemas |-> schemas.val,
                 hasAnyArtifacts |-> agentsMd.val.exists \/ specs.val.exists])

\* scanAll: Promise.all over the three scans, then the merged record.
scanAll(root) ==
    LET agentsMd == scanAgentsMd(root.agentsMd)
        specs == scanSpecs(root.specs)
        schemas == scanSchemas(root.schemas)
    IN  IF agentsMd.threw \/ specs.threw \/ schemas.threw THEN Threw
        ELSE Ok([agentsMd |-> agentsMd.val,
                 specs |-> specs.val,
                 schemas |-> schemas.val,
                 hasAnyArtifacts |-> \/ agentsMd.val.exists
                                     \/ specs.val.exists
                                     \/ schemas.val.exists])

\* ------------------------------- standalone MCP server: ASDLC artifacts
\* scanAgentsMd of the server: readFile alone decides.
mcp_scanAgentsMd(node) ==
    IF ReadRejects(node.kind) THEN [exists |-> FALSE]
    ELSE [exists |-> TRUE, content |-> node.content, path |-> "AGENTS.md"]

mcp_SpecInfo(e) ==
    [domain |-> e.name, path |-> <<"specs", e.name, "spec.md">>,
     hasBlueprint |-> e.blueprint, hasContract |-> e.contract]

\* scanSpecs of the server: a list, empty when readdir rejects.
mcp_scanSpecs(node) ==
    IF ReaddirRejects(node.kind) THEN <<>>
    ELSE LET found == SelectSeq(node.entries,
                          LAMBDA e : e.type = "dir" /\ ~ReadRejects(e.specMd))
         IN  [i \in 1..Len(found) |-> mcp_SpecInfo(found[i])]

\* JSON.parse, then parsed.$id: the key is set, to undefined when the
\* document has no "$id"; the catch block pushes the record without the key.
mcp_SchemaInfo(e) ==
    IF e.readable /\ e.json # "invalid"
    THEN [name |-> e.name.base, path |-> <<"schemas", e.name>>,
          schemaId |-> IF e.json = "$id" THEN <<"$id", "of", e.name.base>>
                       ELSE Undefined]
    ELSE [name |-> e.name.base, path |-> <<"schemas", e.name>>]

mcp_scanSchemas(node) ==
    IF ReaddirRejects(node.kind) THEN <<>>
    ELSE LET found == SelectSeq(node.entries,
                          LAMBDA e : e.type = "file" /\ e.name.ext = "json")
         IN  [i \in 1..Len(found) |-> mcp_SchemaInfo(found[i])]

\* The get_asdlc_artifacts tool: the three scans, then the answer.
mcp_get_asdlc_artifacts(root) ==
    LET agentsMd == mcp_scanAgentsMd(root.agentsMd)
        specs == mcp_scanSpecs(root.specs)
        schemas == mcp_scanSchemas(root.schemas)
    IN  Ok([agentsMd |-> [exists |-> agentsMd.exists,
                          path |-> IF agentsMd.exists THEN agentsMd.path
                                   ELSE Undefined],
            specs |-> [exists |-> Len(specs) > 0, count |-> Len(specs),
                       specs |-> specs],
            schemas |-> [exists |-> Len(schemas) > 0, count |-> Len(schemas),
                         schemas |-> schemas],
            hasAnyArtifacts |-> \/ agentsMd.exists
                                \/ Len(specs) > 0
                                \/ Len(schemas) > 0])

\* ==================================================================== Spec
\* refreshData over a disk that changes while runs are in flight.

\* A specs/ subdirectory and a schema file, as samples.
OneSpecDir ==
    [name |-> "auth", type |-> "dir", specMd |-> "file",
     blueprint |-> TRUE, contract |-> FALSE]
OneSchemaFile ==
    [name |-> FileName("user", "json"), type |-> "file",
     readable |-> TRUE, json |-> "$id"]

NoRoot == "no workspace folder"
WorkspacePath == "/ws"
HomePath == "~"

\* ProjectManager.getProjects(): the stored projects. The second one is the
\* folder that is open as the current workspace.
StoredProjects ==
    <<[id |-> "p1", name |-> "one", path |-> "/p1", active |-> FALSE],
      [id |-> "pw", name |-> "here", path |-> WorkspacePath, active |-> FALSE],
      [id |-> "p2", name |-> "two", path |-> "/p2", active |-> FALSE]>>

Locations == {WorkspacePath, "/p1", "/p2", HomePath}

Runs == 1..MaxRefresh

AbsentDir == [kind |-> "absent", entries |-> <<>>]
AbsentFile == [kind |-> "absent", content |-> <<>>]

EmptyProjectState ==
    [languages |-> <<>>, frameworks |-> <<>>, dependencies |-> <<>>,
     buildTools |-> <<>>, testing |-> <<>>, codeQuality |-> <<>>,
     developmentTools |-> <<>>, architecture |-> <<>>,
     configuration |-> <<>>, documentation |-> <<>>]

\* The contents a location can have.
DiskNames == {"empty", "cursor", "asdlc", "locked"}

DiskOf(name) ==
    CASE name = "empty" ->
           [rules |-> AbsentDir, commands |-> AbsentDir, skills |-> AbsentDir,
            agentsMd |-> AbsentFile, specs |-> AbsentDir, schemas |-> AbsentDir,
            stateScan |-> "ok"]
      [] name = "cursor" ->
           [rules |-> [kind |-> "dir", entries |->
                         <<[name |-> FileName("style", "mdc"), type |-> "file",
                            readable |-> TRUE,
                            fm |-> [alwaysApply |-> "true", globs |-> "inline"]],
                           [name |-> FileName("secret", "md"), type |-> "file",
                            readable |-> FALSE,
                            fm |-> [alwaysApply |-> "false", globs |-> "absent"]]>>],
            commands |-> [kind |-> "dir", entries |->
                         <<[name |-> FileName("deploy", "md"), type |-> "file",
                            readable |-> TRUE]>>],
            skills |-> [kind |-> "dir", entries |->
                         <<[name |-> "plan", type |-> "dir", skillMd |-> "file"]>>],
            agentsMd |-> AbsentFile, specs |-> AbsentDir, schemas |-> AbsentDir,
            stateScan |-> "ok"]
      [] name = "asdlc" ->
           [rules |-> AbsentDir, commands |-> AbsentDir, skills |-> AbsentDir,
            agentsMd |-> [kind |-> "file",
                          content |-> <<HeadingLine(1, "AGENTS")>>],
            specs |-> [kind |-> "dir", entries |-> <<OneSpecDir>>],
            schemas |-> [kind |-> "file", entries |-> <<>>],
            stateScan |-> "ok"]
      [] name = "locked" ->
           [rules |-> [kind |-> "denied", entries |-> <<>>],
            commands |-> [kind |-> "denied", entries |-> <<>>],
            skills |-> [kind |-> "denied", entries |-> <<>>],
            agentsMd |-> [kind |-> "denied", content |-> <<>>],
            specs |-> [kind |-> "denied", entries |-> <<>>],
            schemas |-> [kind |-> "denied", entries |-> <<>>],
            stateScan |-> "rejects"]

\* StateScanner.scanState.
scanState(d) ==
    IF d.stateScan = "rejects" THEN Threw ELSE Ok(EmptyProjectState)

\* The entry stored for a project whose scans all settled.
ProjectData(rules, state, commands, globalCommands, skills, globalSkills, asdlcArtifacts) ==
    [rules |-> rules, state |-> state, commands |-> commands,
     globalCommands |-> globalCommands, skills |-> skills,
     globalSkills |-> globalSkills, asdlcArtifacts |-> asdlcArtifacts]

\* The all-empty entry, with the list taken for commands set to the global
\* commands.
FailedProjectData_globalAsCommands(globalCommands, globalSkills) ==
    ProjectData(<<>>, EmptyProjectState, globalCommands, globalCommands, <<>>,
                globalSkills,
                [agentsMd |-> emptyAgentsMdInfo, specs |-> emptySpecsInfo,
                 schemas |-> emptySchemasInfo, hasAnyArtifacts |-> FALSE])

\* The entry the catch block of the project loop stores.
FailedProjectData(globalCommands, globalSkills) ==
    ProjectData(<<>>, EmptyProjectState, <<>>, globalCommands, <<>>,
                globalSkills,
                [agentsMd |-> emptyAgentsMdInfo, specs |-> emptySpecsInfo,
                 schemas |-> emptySchemasInfo, hasAnyArtifacts |-> FALSE])

\* Promise.all over the five scans of one project root: a rejection of any of
\* them rejects the whole.
ScanProjectRoot(d, globalCommands, globalSkills) ==
    LET rules == RulesScanner_scanRules(d.rules)
        state == scanState(d)
        commands == scanWorkspaceCommands(d.commands)
        skills == scanWorkspaceSkills(d.skills)
        asdlcArtifacts == scanAll(d)
    IN  IF \/ rules.threw \/ state.threw \/ commands.threw
           \/ skills.threw \/ asdlcArtifacts.threw
        THEN Threw
        ELSE Ok(ProjectData(rules.val, state.val, commands.val, globalCommands,
                            skills.val, globalSkills, asdlcArtifacts.val))

\* Promise.all over the two global scans; without a workspace folder the
\* scanners were never constructed and both lists are empty.
ScanGlobals(root, home) ==
    IF root = NoRoot
    THEN [globalCommands |-> <<>>, globalSkills |-> <<>>]
    ELSE [globalCommands |-> scanGlobalCommands(home.commands).val,
          globalSkills |-> scanGlobalSkills(home.skills).val]

\* The calls that reach scanGlobalCommands (and scanGlobalSkills) in one run:
\* the optional call is made when activate constructed the scanners, which it
\* does only when a workspace folder is open.
GlobalScanCalls(root) == IF root = NoRoot THEN 0 ELSE 1

\* The project loop, with break in place of continue.
NextProject_break(projects, i, root) ==
    IF i + 1 > Len(projects) THEN 0
    ELSE IF root # NoRoot /\ projects[i + 1].path = root THEN 0
    ELSE i + 1

\* The project loop: the index of the next project after i that is scanned,
\* the current workspace being skipped; 0 when the loop has ended.
RECURSIVE NextProject(_, _, _)
NextProject(projects, i, root) ==
    IF i + 1 > Len(projects) THEN 0
    ELSE IF root # NoRoot /\ projects[i + 1].path = root
         THEN NextProject(projects, i + 1, root)
         ELSE i + 1

CurrentWorkspaceProject(root) ==
    [id |-> "current-workspace", name |-> "Current Workspace", path |-> root,
     active |-> TRUE]

AllProjects(projects, root) ==
    IF root = NoRoot THEN projects
    ELSE <<CurrentWorkspaceProject(root)>> \o projects

FinalCurrentProject(allProjects) ==
    IF \E i \in 1..Len(allProjects) : allProjects[i].active
    THEN allProjects[CHOOSE i \in 1..Len(allProjects) :
                        /\ allProjects[i].active
                        /\ \A j \in 1..(i - 1) : ~allProjects[j].active]
    ELSE IF Len(allProjects) > 0 THEN allProjects[1] ELSE "null"

\* const projectData = new Map(): a Map of its own for every run.
NewMap_shared(r) == 0

NewMap(r) == r

\* updateData that keeps the data of the first call.
updateData_keepFirst(t, projectData, projects, currentProject) ==
    IF t.projectData # 0 THEN t
    ELSE [projectData |-> projectData, projects |-> projects,
          currentProject |-> currentProject]

\* ProjectTreeProvider.updateData: the three fields are reassigned.
updateData(t, projectData, projects, currentProject) ==
    [projectData |-> projectData, projects |-> projects,
     currentProject |-> currentProject]

\* Map.prototype.set on the Map object m.
MapSet(heap, m, key, entry) ==
    [heap EXCEPT ![m] = [k \in DOMAIN heap[m] \cup {key} |->
                            IF k = key THEN entry ELSE heap[m][k]]]

EmptyMap == [k \in {} |-> {}]

InFlight(r) == pc[r] \in {"global", "workspace", "projects", "scan"}
Started(r) == pc[r] # "idle"

\* ------------------------------------------------ activate and deactivate
\* A set of workspace watchers (rules, commands, skills) under its combined
\* handle: how many times the handle and each watcher were disposed.
NewWatcherSet == [handle |-> 0, rules |-> 0, commands |-> 0, skills |-> 0]

\* The combined handle disposing the rules and commands watchers only.
disposeCombined_bothOnly(set) ==
    [handle |-> set.handle + 1, rules |-> set.rules + 1,
     commands |-> set.commands + 1, skills |-> set.skills]

\* fileWatcher.dispose(): the three dispose calls of the combined handle.
disposeCombined(set) ==
    [handle |-> set.handle + 1, rules |-> set.rules + 1,
     commands |-> set.commands + 1, skills |-> set.skills + 1]

\* if (fileWatcher) { fileWatcher.dispose(); }, and the same for a handle
\* held by context.subscriptions.
disposeHandle(sets, handle) ==
    IF handle = 0 THEN sets
    ELSE [sets EXCEPT ![handle] = disposeCombined(@)]

\* setupFileWatcher: without a workspace folder it returns at once; else it
\* creates the three watchers and assigns the combined handle.
setupFileWatcher(root, handle, sets) ==
    IF root = NoRoot THEN [fileWatcher |-> handle, watcherSets |-> sets]
    ELSE [fileWatcher |-> Len(sets) + 1,
          watcherSets |-> Append(sets, NewWatcherSet)]

\* activate without its guard.
activate_unguarded(activated, root, handle, sets) ==
    LET w == setupFileWatcher(root, handle, sets)
    IN  [ignored |-> FALSE, isActivated |-> TRUE,
         fileWatcher |-> w.fileWatcher, watcherSets |-> w.watcherSets]

\* activate: nothing when already activated; else the flag is set and, with
\* a workspace folder, the watchers are set up.
activate(activated, root, handle, sets) ==
    IF activated
    THEN [ignored |-> TRUE, isActivated |-> activated,
          fileWatcher |-> handle, watcherSets |-> sets]
    ELSE LET w == setupFileWatcher(root, handle, sets)
         IN  [ignored |-> FALSE, isActivated |-> TRUE,
              fileWatcher |-> w.fileWatcher, watcherSets |-> w.watcherSets]

\* A watcher is live until it is disposed.
Live(set) == set.rules = 0 \/ set.commands = 0 \/ set.skills = 0

\* The state the refresh runs start from: activate has run.
ActivatedInit ==
    /\ isActivated = TRUE
    /\ fileWatcher = IF workspaceRoot = NoRoot THEN 0 ELSE 1
    /\ watcherSets = IF workspaceRoot = NoRoot THEN <<>> ELSE <<NewWatcherSet>>
    /\ subscriptions = <<fileWatcher>>
    /\ lastCall = "activate"

Init ==
    /\ call = NoCall
    /\ workspaceRoot \in {WorkspacePath, NoRoot}
    /\ ActivatedInit
    /\ disk \in {f \in [Locations -> DiskNames] :
                   /\ f[WorkspacePath] \in {"cursor", "locked"}
                   /\ f["/p1"] \in {"asdlc", "locked"}
                   /\ f["/p2"] = "cursor"
                   /\ f[HomePath] \in {"empty", "cursor"}}
    /\ changes = 0
    /\ events = 0
    \* activate starts the initial data load.
    /\ pc = [r \in Runs |-> IF r = 1 THEN "global" ELSE "idle"]
    /\ idx = [r \in Runs |-> 0]
    /\ globals = [r \in Runs |-> [globalCommands |-> <<>>, globalSkills |-> <<>>]]
    /\ globalScans = [r \in Runs |-> 0]
    /\ rejected = [r \in Runs |-> FALSE]
    /\ maps = [m \in 0..MaxRefresh |-> EmptyMap]
    /\ writers = [m \in 0..MaxRefresh |-> {}]
    /\ tree = [projectData |-> 0, projects |-> <<>>, currentProject |-> "null"]
    /\ applyLog = <<>>

\* A file under a watched pattern changes: the workspace's .cursor tree, or
\* the home's. The watcher fires one event.
DiskChange ==
    /\ changes < MaxChanges
    /\ \E loc \in {WorkspacePath, HomePath}, name \in DiskNames :
          /\ loc = WorkspacePath => workspaceRoot # NoRoot
          /\ loc = HomePath => name \in {"empty", "cursor"}
          /\ name # disk[loc]
          /\ disk' = [disk EXCEPT ![loc] = name]
    /\ changes' = changes + 1
    /\ events' = events + 1
    /\ UNCHANGED <<call, lifeVars, workspaceRoot, pc, idx, globals, globalScans, rejected, maps,
                   writers, tree, applyLog>>

\* refreshData up to its first await: the Map is created.
Begin(r) ==
    /\ pc[r] = "idle"
    /\ \A q \in Runs : q < r => Started(q)
    /\ pc' = [pc EXCEPT ![r] = "global"]
    /\ maps' = [maps EXCEPT ![NewMap(r)] = EmptyMap]

\* A watcher handler calls refreshData().
WatcherRefresh(r) ==
    /\ events > 0
    /\ Begin(r)
    /\ events' = events - 1
    /\ UNCHANGED <<call, lifeVars, workspaceRoot, disk, changes, idx, globals, globalScans, rejected,
                   writers, tree, applyLog>>

\* The ace.refresh command calls refreshData().
ManualRefresh(r) ==
    /\ Begin(r)
    /\ UNCHANGED <<call, lifeVars, workspaceRoot, disk, changes, events, idx, globals, globalScans,
                   rejected, writers, tree, applyLog>>

\* Lines 293-311: the tree is handed the Map, the project list and the
\* current project, and the run ends.
Deliver(r) ==
    LET allProjects == AllProjects(StoredProjects, workspaceRoot)
    IN  /\ tree' = updateData(tree, NewMap(r), allProjects,
                              FinalCurrentProject(allProjects))
        /\ applyLog' = Append(applyLog, r)

\* After an await of the project loop or of getProjects: go on to the next
\* project to scan, or, the loop over, update the tree.
Continue(r, i) ==
    LET next == NextProject(StoredProjects, i, workspaceRoot)
    IN  IF next = 0
        THEN /\ pc' = [pc EXCEPT ![r] = "done"]
             /\ idx' = [idx EXCEPT ![r] = 0]
             /\ Deliver(r)
        ELSE /\ pc' = [pc EXCEPT ![r] = "scan"]
             /\ idx' = [idx EXCEPT ![r] = next]
             /\ UNCHANGED <<tree, applyLog>>

\* The two global scans settle.
GlobalScansSettle(r) ==
    /\ pc[r] = "global"
    /\ globals' = [globals EXCEPT ![r] =
                      ScanGlobals(workspaceRoot, DiskOf(disk[HomePath]))]
    /\ globalScans' = [globalScans EXCEPT ![r] = @ + GlobalScanCalls(workspaceRoot)]
    /\ pc' = [pc EXCEPT ![r] =
                 IF workspaceRoot # NoRoot THEN "workspace" ELSE "projects"]
    /\ UNCHANGED <<call, lifeVars, workspaceRoot, disk, changes, events, idx, rejected,
                   maps, writers, tree, applyLog>>

\* The five scans of the current workspace settle, in a refreshData that
\* hands its Map to the tree before the rejection reaches the catch block.
WorkspaceScansSettle_mapHandedOver(r) ==
    /\ pc[r] = "workspace"
    /\ LET scan == ScanProjectRoot(DiskOf(disk[workspaceRoot]),
                                   globals[r].globalCommands,
                                   globals[r].globalSkills)
       IN  IF scan.threw
           THEN /\ pc' = [pc EXCEPT ![r] = "failed"]
                /\ rejected' = [rejected EXCEPT ![r] = TRUE]
                /\ tree' = [tree EXCEPT !.projectData = NewMap(r)]
                /\ UNCHANGED <<maps, writers>>
           ELSE /\ pc' = [pc EXCEPT ![r] = "projects"]
                /\ maps' = MapSet(maps, NewMap(r), "current-workspace", scan.val)
                /\ writers' = [writers EXCEPT ![NewMap(r)] = @ \cup {r}]
                /\ UNCHANGED <<rejected, tree>>
    /\ UNCHANGED <<call, lifeVars, workspaceRoot, disk, changes, events, idx, globals, globalScans,
                   applyLog>>

\* The five scans of the current workspace settle: its entry is stored, or
\* the rejection reaches the catch block that surrounds refreshData's body.
WorkspaceScansSettle(r) ==
    /\ pc[r] = "workspace"
    /\ LET scan == ScanProjectRoot(DiskOf(disk[workspaceRoot]),
                                   globals[r].globalCommands,
                                   globals[r].globalSkills)
       IN  IF scan.threw
           THEN /\ pc' = [pc EXCEPT ![r] = "failed"]
                /\ rejected' = [rejected EXCEPT ![r] = TRUE]
                /\ UNCHANGED <<maps, writers>>
           ELSE /\ pc' = [pc EXCEPT ![r] = "projects"]
                /\ maps' = MapSet(maps, NewMap(r), "current-workspace", scan.val)
                /\ writers' = [writers EXCEPT ![NewMap(r)] = @ \cup {r}]
                /\ UNCHANGED rejected
    /\ UNCHANGED <<call, lifeVars, workspaceRoot, disk, changes, events, idx, globals, globalScans,
                   tree, applyLog>>

\* getProjects and getCurrentProject settle; the loop starts.
ProjectsLoaded(r) ==
    /\ pc[r] = "projects"
    /\ Continue(r, 0)
    /\ UNCHANGED <<call, lifeVars, workspaceRoot, disk, changes, events, globals, globalScans,
                   rejected, maps, writers>>

\* The five scans of a stored project settle: its entry is stored, or the
\* loop's catch block stores the all-empty entry; the loop goes on.
ProjectScansSettle(r) ==
    /\ pc[r] = "scan"
    /\ LET project == StoredProjects[idx[r]]
           scan == ScanProjectRoot(DiskOf(disk[project.path]),
                                   globals[r].globalCommands,
                                   globals[r].globalSkills)
           entry == IF scan.threw
                    THEN FailedProjectData(globals[r].globalCommands,
                                           globals[r].globalSkills)
                    ELSE scan.val
       IN  /\ maps' = MapSet(maps, NewMap(r), project.id, entry)
           /\ writers' = [writers EXCEPT ![NewMap(r)] = @ \cup {r}]
    /\ Continue(r, idx[r])
    /\ UNCHANGED <<call, lifeVars, workspaceRoot, disk, changes, events, globals, globalScans,
                   rejected>>

Next ==
    \/ DiskChange
    \/ \E r \in Runs : WatcherRefresh(r)
    \/ \E r \in Runs : ManualRefresh(r)
    \/ \E r \in Runs : GlobalScansSettle(r)
    \/ \E r \in Runs : WorkspaceScansSettle(r)
    \/ \E r \in Runs : ProjectsLoaded(r)
    \/ \E r \in Runs : ProjectScansSettle(r)

Spec == Init /\ [][Next]_vars

\* ===================================================== ProjectTreeProvider
\* A node of the tree: a section (label and category), a leaf (category and
\* the artifact shown) or an empty-state node (a label alone).
SectionItem(label, category) == [label |-> label, category |-> category]
LeafItem(category, artifact) == [category |-> category, artifact |-> artifact]
EmptyStateItem(label) == [label |-> label]

\* this.projectData.get(project.id) without an entry.
NoProjectData == [missing |-> TRUE]

\* projectData?.rules || [], and the like.
listOf(projectData, field) ==
    IF field \in DOMAIN projectData THEN projectData[field] ELSE <<>>

\* A list section: its empty-state node, or one leaf for each artifact.
listChildren(list, category, emptyLabel) ==
    IF Len(list) = 0 THEN <<EmptyStateItem(emptyLabel)>>
    ELSE [i \in 1..Len(list) |-> LeafItem(category, list[i])]

\* The Agents section: AGENTS.md, Specs and Schemas are pushed when they
\* exist, and one placeholder stands for all three when none does.
agentsChildren(projectData) ==
    IF "asdlcArtifacts" \notin DOMAIN projectData
    THEN <<EmptyStateItem("No ASDLC artifacts found")>>
    ELSE LET a == projectData.asdlcArtifacts
             items == (IF a.agentsMd.exists /\ "path" \in DOMAIN a.agentsMd
                       THEN <<SectionItem("AGENTS.md", "agents-md")>> ELSE <<>>)
                      \o (IF a.specs.exists
                          THEN <<SectionItem("Specs", "specs")>> ELSE <<>>)
                      \o (IF a.schemas.exists
                          THEN <<SectionItem("Schemas", "schemas")>> ELSE <<>>)
         IN  IF Len(items) = 0
             THEN <<EmptyStateItem("No ASDLC artifacts found")>>
             ELSE items

\* getChildren(element) for an element of a project, by its category.
getChildren(category, projectData) ==
    CASE category = "projects" ->
           <<SectionItem("Cursor", "cursor"), SectionItem("Agents", "agents")>>
      [] category = "cursor" ->
           <<SectionItem("Commands", "commands"), SectionItem("Rules", "rules"),
             SectionItem("Skills", "skills")>>
      [] category = "agents" -> agentsChildren(projectData)
      [] category = "commands" ->
           <<SectionItem("Workspace Commands", "commands-workspace"),
             SectionItem("Global Commands", "commands-global")>>
      [] category = "commands-workspace" ->
           listChildren(listOf(projectData, "commands"), category,
                        "No workspace commands found")
      [] category = "commands-global" ->
           listChildren(listOf(projectData, "globalCommands"), category,
                        "No global commands found")
      [] category = "skills" ->
           <<SectionItem("Workspace Skills", "skills-workspace"),
             SectionItem("Global Skills", "skills-global")>>
      [] category = "skills-workspace" ->
           listChildren(listOf(projectData, "skills"), category,
                        "No workspace skills found")
      [] category = "skills-global" ->
           listChildren(listOf(projectData, "globalSkills"), category,
                        "No global skills found")
      [] category = "specs" ->
           listChildren(IF "asdlcArtifacts" \in DOMAIN projectData
                        THEN projectData.asdlcArtifacts.specs.specs ELSE <<>>,
                        category, "No specs found")
      [] category = "schemas" ->
           listChildren(IF "asdlcArtifacts" \in DOMAIN projectData
                        THEN projectData.asdlcArtifacts.schemas.schemas
                        ELSE <<>>,
                        category, "No schemas found")
      [] category = "rules" ->
           listChildren(listOf(projectData, "rules"), category,
                        "No rules found")
      [] OTHER -> <<>>

\* ============================================================= get by name
\* A requested name, as the text the caller sends: a base, the extension
\* written after it ("none" when there is none) and whether the text is in
\* upper case. File and directory names on the disk are in lower case.
Requests(bases, exts) == [base : bases, ext : exts, upper : BOOLEAN]

\* String.prototype.toLowerCase on a requested name.
toLowerCase(name) == [base |-> name.base, ext |-> name.ext]

\* name.replace(/\.(mdc|md)$/, '') and name.replace(/\.md$/, '').
stripExtension(name, exts) ==
    IF name.ext \in exts THEN [base |-> name.base, ext |-> "none"] ELSE name

\* The texts that occur in the directory part of every path under .cursor.
PathFragments == {"cursor"}

\* The pairs <<part, whole>> of different bases where the first occurs in the
\* second, and those where it ends the second.
Substrings == {<<"a", "ab">>, <<"b", "ab">>}
Suffixes == {<<"b", "ab">>}

\* fsPath.toLowerCase().includes(name.toLowerCase()), for the path of a file
\* base.ext: a name without extension is found in a path fragment or in the
\* base, a name with an extension at the end of the file name.
pathIncludes(uri, name) ==
    \/ /\ name.ext = "none"
       /\ \/ name.base \in PathFragments
          \/ name.base = uri.base
          \/ <<name.base, uri.base>> \in Substrings
    \/ /\ name.ext = uri.ext
       /\ name.base = uri.base \/ <<name.base, uri.base>> \in Suffixes

\* The same for .cursor/skills/<directory>/SKILL.md.
skillPathIncludes(uri, name) ==
    /\ name.ext = "none"
    /\ \/ name.base \in PathFragments \cup {uri}
       \/ <<name.base, uri>> \in Substrings

Null == [null |-> TRUE]

\* getWorkspaceUri: the project path when one is given, or the first
\* workspace folder, or undefined.
getWorkspaceUri(input, folder) ==
    IF "projectPath" \in DOMAIN input THEN input.projectPath ELSE folder

toRuleContent(rule) == toRuleInfo(rule) @@ [content |-> rule.content]

toCommandContent(command) ==
    [name |-> command.fileName.base,
     description |-> <<"description of", command.content>>,
     path |-> command.uri, location |-> command.location,
     content |-> command.content]

toSkillContent(skill) ==
    IF "metadata" \in DOMAIN skill
    THEN [name |-> skill.fileName, path |-> skill.uri,
          location |-> skill.location, content |-> skill.content,
          metadata |-> skill.metadata]
    ELSE [name |-> skill.fileName, path |-> skill.uri,
          location |-> skill.location, content |-> skill.content]

toCommandInfo(command) ==
    [name |-> command.fileName.base,
     description |-> <<"description of", command.content>>,
     path |-> command.uri, location |-> command.location]

\* title and overview are read through skill.metadata?.
toSkillInfo(skill) ==
    IF "metadata" \in DOMAIN skill
    THEN [name |-> skill.fileName, path |-> skill.uri,
          location |-> skill.location,
          title |-> <<"title of", skill.metadata>>,
          overview |-> <<"overview of", skill.metadata>>]
    ELSE [name |-> skill.fileName, path |-> skill.uri,
          location |-> skill.location]

\* Array.prototype.find, then null or the converted record.
FindOrNull(records, Test(_), Convert(_)) ==
    LET found == SelectSeq(records, Test)
    IN  IF found = <<>> THEN Null ELSE Convert(found[1])

\* McpTools.getRule. validateWorkspace throws without a workspace.
McpTools_getRule(input, folder, dir) ==
    IF getWorkspaceUri(input, folder) = NoRoot THEN Threw
    ELSE LET rules == RulesScanner_scanRules(dir).val
             normalizedName == stripExtension(toLowerCase(input.name), {"mdc", "md"})
             test(r) == \/ stripExtension(r.fileName, {"mdc", "md"}) = normalizedName
                        \/ pathIncludes(r.uri, toLowerCase(input.name))
         IN  Ok(FindOrNull(rules, test, toRuleContent))

McpTools_getCommand(input, folder, dir, globalDir) ==
    IF getWorkspaceUri(input, folder) = NoRoot THEN Threw
    ELSE LET allCommands == scanWorkspaceCommands(dir).val
                            \o scanGlobalCommands(globalDir).val
             normalizedName == stripExtension(toLowerCase(input.name), {"md"})
             test(c) == \/ stripExtension(c.fileName, {"md"}) = normalizedName
                        \/ pathIncludes(c.uri, toLowerCase(input.name))
         IN  Ok(FindOrNull(allCommands, test, toCommandContent))

McpTools_getSkill(input, folder, dir, globalDir) ==
    IF getWorkspaceUri(input, folder) = NoRoot THEN Threw
    ELSE LET allSkills == scanWorkspaceSkills(dir).val
                          \o scanGlobalSkills(globalDir).val
             normalizedName == toLowerCase(input.name)
             test(k) == \/ [base |-> k.fileName, ext |-> "none"] = normalizedName
                        \/ skillPathIncludes(k.uri, normalizedName)
         IN  Ok(FindOrNull(allSkills, test, toSkillContent))

\* getProjectContext stamping the project path as well.
McpTools_getProjectContext_stampedPath(input, folder, project, now) ==
    IF getWorkspaceUri(input, folder) = NoRoot THEN Threw
    ELSE Ok([timestamp |-> now,
             projectPath |-> <<getWorkspaceUri(input, folder), now>>])

\* McpTools.getProjectContext at the time now: the four lists, scanned
\* afresh, under new Date().toISOString(). A rejected scan rejects the call.
McpTools_getProjectContext(input, folder, project, now) ==
    IF getWorkspaceUri(input, folder) = NoRoot THEN Threw
    ELSE LET rules == RulesScanner_scanRules(project.rules).val
             commands == scanWorkspaceCommands(project.commands).val
                         \o scanGlobalCommands(project.globalCommands).val
             skills == scanWorkspaceSkills(project.skills).val
                       \o scanGlobalSkills(project.globalSkills).val
             asdlcArtifacts == scanAll(project.root)
         IN  IF asdlcArtifacts.threw THEN Threw
             ELSE Ok([timestamp |-> now,
                      projectPath |-> getWorkspaceUri(input, folder),
                      rules |-> [i \in 1..Len(rules) |-> toRuleInfo(rules[i])],
                      commands |-> [i \in 1..Len(commands) |->
                                       toCommandInfo(commands[i])],
                      skills |-> [i \in 1..Len(skills) |->
                                     toSkillInfo(skills[i])],
                      asdlcArtifacts |-> asdlcArtifacts.val])

\* The standalone server. scanSkills: a subdirectory whose SKILL.md cannot be
\* read is skipped; the workspace, then the home directory.
mcp_SkillInfo(e, location) ==
    [name |-> e.name, title |-> <<"title of", SkillContentOf(e.name)>>,
     path |-> e.name, location |-> location]

mcp_skillsOf(dir, location) ==
    IF ReaddirRejects(dir.kind) THEN <<>>
    ELSE LET es == SelectSeq(dir.entries,
                             LAMBDA e : e.type = "dir" /\ e.skillMd = "file")
         IN  [i \in 1..Len(es) |-> mcp_SkillInfo(es[i], location)]

mcp_scanSkills(dir, globalDir) ==
    Ok(mcp_skillsOf(dir, "workspace") \o mcp_skillsOf(globalDir, "global"))

\* The answers of a tool of the standalone server.
mcp_Text(text) == [content |-> <<[type |-> "text", text |-> text]>>]

mcp_NotFound(kind, name) ==
    [content |-> <<[type |-> "text", text |-> <<kind, name, "not found">>]>>,
     isError |-> TRUE]

mcp_get_rule(args, dir) ==
    LET rules == mcp_scanRules(dir).val
        normalizedName == stripExtension(toLowerCase(args.name), {"mdc", "md"})
        found == SelectSeq(rules, LAMBDA r :
                     [base |-> r.name, ext |-> "none"] = normalizedName)
    IN  IF found = <<>> THEN Ok(mcp_NotFound("Rule", args.name))
        ELSE Ok(mcp_Text(ContentOf(found[1].path)))

mcp_get_command(args, dir, globalDir) ==
    LET commands == mcp_scanCommands(dir, globalDir).val
        normalizedName == stripExtension(toLowerCase(args.name), {"md"})
        found == SelectSeq(commands, LAMBDA c :
                     [base |-> c.name, ext |-> "none"] = normalizedName)
    IN  IF found = <<>> THEN Ok(mcp_NotFound("Command", args.name))
        ELSE Ok(mcp_Text(ContentOf(found[1].path)))

mcp_get_skill(args, dir, globalDir) ==
    LET skills == mcp_scanSkills(dir, globalDir).val
        normalizedName == toLowerCase(args.name)
        found == SelectSeq(skills, LAMBDA k :
                     [base |-> k.name, ext |-> "none"] = normalizedName)
    IN  IF found = <<>> THEN Ok(mcp_NotFound("Skill", args.name))
        ELSE Ok(mcp_Text(SkillContentOf(found[1].path)))

\* ================================================================ SpecScan
\* The inputs the scanner calls are drawn from.
CommandDirs == Directories({"a", "README"}, {"md", "txt"})
GlobalCommandDirs == Directories({"g"}, {"md"})
RuleDirs == RuleDirectories({"a", "b"}, {"mdc", "md", "txt"}, DirFrontmatters)

\* .cursor/rules with a subdirectory: at most one file at the top, and under
\* the subdirectory a file, or a second subdirectory with a file in it.
RuleFile(base, ext) ==
    [name |-> FileName(base, ext), type |-> "file", readable |-> TRUE,
     fm |-> [alwaysApply |-> "false", globs |-> "absent"]]

RuleSubdirectory(base, children) ==
    [name |-> FileName(base, ""), type |-> "dir", readable |-> TRUE,
     fm |-> [alwaysApply |-> "false", globs |-> "absent"],
     children |-> children]

NestedRuleDirs ==
    {[kind |-> "dir", entries |-> top \o <<RuleSubdirectory("sub", below)>>] :
        top \in {<<>>, <<RuleFile("top", "mdc")>>},
        below \in {<<RuleFile("nested", ext)>> : ext \in {"mdc", "md", "txt"}}
                  \cup {<<RuleSubdirectory("deeper", <<RuleFile("deep", "md")>>)>>}}

\* One readable rule file, with every frontmatter.
ClassifyDirs ==
    {[kind |-> "dir",
      entries |-> <<[name |-> FileName("a", "mdc"), type |-> "file",
                     readable |-> TRUE, fm |-> fm]>>] :
        fm \in RuleFrontmatters}
SkillDirs == SkillDirectories({"s1", "s2", "s3"})
SpecsDirs == SpecsNodes({"auth", "ui"})

\* AGENTS.md as scanAgentsMd is called on it: every node kind, and a file of
\* one to MaxLines lines.
ConstitutionNodes ==
    AgentsNodes
    \cup {[kind |-> "file", content |-> c] :
            c \in SeqsUpTo(ConstitutionLines, MaxLines) \ {<<>>}}
SchemasDirs == SchemasNodes({"a", "b"})

\* AGENTS.md with an "Operational Boundaries" section of up to MaxTierLines
\* lines: tier headings, bullets and the heading of a following section.
TierLines ==
    {HeadingLine(3, "Tier 1 (ALWAYS)"),
     HeadingLine(3, "Tier 2 (ASK)"),
     BulletLine("ALWAYS", "use strict types"),
     BulletLine("ASK", "before adding dependencies"),
     HeadingLine(2, "Tech Stack")}

BoundariesNodes ==
    {[kind |-> "file",
      content |-> <<HeadingLine(2, "Operational Boundaries")>> \o body] :
        body \in SeqsUpTo(TierLines, MaxTierLines)}

\* The directories and names of the get-by-name calls.
LookupRuleDirs ==
    RuleDirectories({"a", "ab"}, {"mdc"},
                    {[alwaysApply |-> "false", globs |-> "absent"]})
LookupCommandDirs == Directories({"a"}, {"md"})
LookupSkillDirs == SkillDirectories({"s1"})
LookupGlobalSkillDirs == SkillDirectories({"g1"})
RuleRequests == Requests({"a", "ab", "zeta", "cursor"}, {"none", "mdc"})
CommandRequests == Requests({"a", "g", "zeta", "cursor"}, {"none", "md"})
SkillRequests == Requests({"s1", "g1", "zeta", "cursor"}, {"none"})

\* The input of an extension tool: the name, an optional project path, and
\* the first workspace folder of the window.
ToolInputs(names) ==
    [name : names] \cup [name : names, projectPath : {"/p1"}]

\* The categories getChildren is called with, and the entries of the
\* backing map it reads: each list empty or of one artifact, and the
\* artifacts of a root with or without AGENTS.md, specs/ and schemas/.
Categories ==
    {"projects", "cursor", "agents", "commands", "commands-workspace",
     "commands-global", "skills", "skills-workspace", "skills-global",
     "specs", "schemas", "rules", "agents-md"}

TreeRoots ==
    [agentsMd : {n \in AgentsNodes : n.kind \in {"absent", "file"}},
     specs : {AbsentDir, [kind |-> "dir", entries |-> <<>>],
              [kind |-> "dir", entries |-> <<OneSpecDir>>]},
     schemas : {AbsentDir, [kind |-> "dir", entries |-> <<>>],
                [kind |-> "dir", entries |-> <<OneSchemaFile>>]}]

TreeEntries ==
    {ProjectData(rules, EmptyProjectState, commands, globalCommands, skills,
                 globalSkills, scanAll(root).val) :
        rules \in {<<>>, <<RuleRecord(RuleFile("a", "mdc"))>>},
        commands \in {<<>>, <<CommandRecord([name |-> FileName("a", "md"),
                                type |-> "file", readable |-> TRUE],
                                "workspace")>>},
        globalCommands \in {<<>>, <<CommandRecord([name |-> FileName("g", "md"),
                                      type |-> "file", readable |-> TRUE],
                                      "global")>>},
        skills \in {<<>>, <<SkillRecord([name |-> "s1", type |-> "dir",
                                         skillMd |-> "file"], "workspace")>>},
        globalSkills \in {<<>>},
        root \in TreeRoots}
    \cup {NoProjectData}

Roots ==
    [agentsMd : AgentsNodes,
     specs : {[kind |-> k, entries |-> <<>>] : k \in NodeKinds}
             \cup {[kind |-> "dir", entries |-> <<OneSpecDir>>]},
     schemas : {[kind |-> k, entries |-> <<>>] : k \in NodeKinds}
               \cup {[kind |-> "dir", entries |-> <<OneSchemaFile>>]}]

Called(op, input, result) == [op |-> op, input |-> input, result |-> result]

InitScan ==
    /\ call = NoCall
    /\ isActivated = FALSE
    /\ fileWatcher = 0
    /\ watcherSets = <<>>
    /\ subscriptions = <<>>
    /\ lastCall = "none"
    /\ workspaceRoot = NoRoot
    /\ disk = [loc \in Locations |-> "empty"]
    /\ changes = 0
    /\ events = 0
    /\ pc = [r \in Runs |-> "idle"]
    /\ idx = [r \in Runs |-> 0]
    /\ globals = [r \in Runs |-> [globalCommands |-> <<>>, globalSkills |-> <<>>]]
    /\ globalScans = [r \in Runs |-> 0]
    /\ rejected = [r \in Runs |-> FALSE]
    /\ maps = [m \in 0..MaxRefresh |-> EmptyMap]
    /\ writers = [m \in 0..MaxRefresh |-> {}]
    /\ tree = [projectData |-> 0, projects |-> <<>>, currentProject |-> "null"]
    /\ applyLog = <<>>

Call_scanRules ==
    /\ call.op = "none"
    /\ UNCHANGED refreshVars
    /\ \E dir \in RuleDirs \cup NestedRuleDirs :
        call' = Called("RulesScanner.scanRules", dir, RulesScanner_scanRules(dir))

Call_scanWorkspaceCommands ==
    /\ call.op = "none"
    /\ UNCHANGED refreshVars
    /\ \E dir \in CommandDirs :
        call' = Called("scanWorkspaceCommands", dir, scanWorkspaceCommands(dir))

Call_scanGlobalCommands ==
    /\ call.op = "none"
    /\ UNCHANGED refreshVars
    /\ \E dir \in CommandDirs :
        call' = Called("scanGlobalCommands", dir, scanGlobalCommands(dir))

Call_scanWorkspaceSkills ==
    /\ call.op = "none"
    /\ UNCHANGED refreshVars
    /\ \E dir \in SkillDirs :
        call' = Called("scanWorkspaceSkills", dir, scanWorkspaceSkills(dir))

Call_scanGlobalSkills ==
    /\ call.op = "none"
    /\ UNCHANGED refreshVars
    /\ \E dir \in SkillDirs :
        call' = Called("scanGlobalSkills", dir, scanGlobalSkills(dir))

Call_scanAgentsMd ==
    /\ call.op = "none"
    /\ UNCHANGED refreshVars
    /\ \E node \in ConstitutionNodes \cup BoundariesNodes :
        call' = Called("scanAgentsMd", node, scanAgentsMd(node))

Call_scanSpecs ==
    /\ call.op = "none"
    /\ UNCHANGED refreshVars
    /\ \E node \in SpecsDirs :
        call' = Called("scanSpecs", node, scanSpecs(node))

Call_scanSchemas ==
    /\ call.op = "none"
    /\ UNCHANGED refreshVars
    /\ \E node \in SchemasDirs :
        call' = Called("scanSchemas", node, scanSchemas(node))

Call_scanAll ==
    /\ call.op = "none"
    /\ UNCHANGED refreshVars
    /\ \E root \in Roots :
        call' = Called("scanAll", root, scanAll(root))

Call_mcp_scanRules ==
    /\ call.op = "none"
    /\ UNCHANGED refreshVars
    /\ \E dir \in RuleDirs \cup ClassifyDirs \cup NestedRuleDirs :
        call' = Called("mcp.scanRules", dir, mcp_scanRules(dir))

Call_mcp_scanCommands ==
    /\ call.op = "none"
    /\ UNCHANGED refreshVars
    /\ \E dir \in CommandDirs, globalDir \in GlobalCommandDirs :
        call' = Called("mcp.scanCommands",
                       [dir |-> dir, globalDir |-> globalDir],
                       mcp_scanCommands(dir, globalDir))

Call_toRuleInfo ==
    /\ call.op = "none"
    /\ UNCHANGED refreshVars
    /\ \E rule \in Rules :
        call' = Called("toRuleInfo", rule, Ok(toRuleInfo(rule)))

Call_parseSKILLMetadata ==
    /\ call.op = "none"
    /\ UNCHANGED refreshVars
    /\ \E content \in SkillContents :
        call' = Called("parseSKILLMetadata", content,
                       Ok(parseSKILLMetadata(content)))

\* A tool called without a workspace scans nothing.
Call_getRule ==
    /\ call.op = "none"
    /\ UNCHANGED refreshVars
    /\ \E input \in ToolInputs(RuleRequests), folder \in {NoRoot, WorkspacePath}, dir \in LookupRuleDirs :
        call' = Called("getRule",
                       IF getWorkspaceUri(input, folder) = NoRoot
                       THEN [args |-> input, folder |-> folder]
                       ELSE [args |-> input, folder |-> folder, dir |-> dir],
                       McpTools_getRule(input, folder, dir))

Call_getCommand ==
    /\ call.op = "none"
    /\ UNCHANGED refreshVars
    /\ \E input \in ToolInputs(CommandRequests), folder \in {NoRoot, WorkspacePath}, dir \in LookupCommandDirs, globalDir \in GlobalCommandDirs :
        call' = Called("getCommand",
                       IF getWorkspaceUri(input, folder) = NoRoot
                       THEN [args |-> input, folder |-> folder]
                       ELSE [args |-> input, folder |-> folder, dir |-> dir,
                             globalDir |-> globalDir],
                       McpTools_getCommand(input, folder, dir, globalDir))

Call_getSkill ==
    /\ call.op = "none"
    /\ UNCHANGED refreshVars
    /\ \E input \in ToolInputs(SkillRequests), folder \in {NoRoot, WorkspacePath}, dir \in LookupSkillDirs, globalDir \in LookupGlobalSkillDirs :
        call' = Called("getSkill",
                       IF getWorkspaceUri(input, folder) = NoRoot
                       THEN [args |-> input, folder |-> folder]
                       ELSE [args |-> input, folder |-> folder, dir |-> dir,
                             globalDir |-> globalDir],
                       McpTools_getSkill(input, folder, dir, globalDir))

Call_mcp_get_rule ==
    /\ call.op = "none"
    /\ UNCHANGED refreshVars
    /\ \E name \in RuleRequests, dir \in LookupRuleDirs :
        call' = Called("mcp.get_rule", [args |-> [name |-> name], dir |-> dir],
                       mcp_get_rule([name |-> name], dir))

Call_mcp_get_command ==
    /\ call.op = "none"
    /\ UNCHANGED refreshVars
    /\ \E name \in CommandRequests, dir \in LookupCommandDirs, globalDir \in GlobalCommandDirs :
        call' = Called("mcp.get_command",
                       [args |-> [name |-> name], dir |-> dir,
                        globalDir |-> globalDir],
                       mcp_get_command([name |-> name], dir, globalDir))

Call_mcp_get_skill ==
    /\ call.op = "none"
    /\ UNCHANGED refreshVars
    /\ \E name \in SkillRequests, dir \in LookupSkillDirs, globalDir \in LookupGlobalSkillDirs :
        call' = Called("mcp.get_skill",
                       [args |-> [name |-> name], dir |-> dir,
                        globalDir |-> globalDir],
                       mcp_get_skill([name |-> name], dir, globalDir))

Call_getChildren ==
    /\ call.op = "none"
    /\ UNCHANGED refreshVars
    /\ \E category \in Categories, projectData \in TreeEntries :
        call' = Called("getChildren",
                       [category |-> category, projectData |-> projectData],
                       Ok(getChildren(category, projectData)))

Call_mcp_scanSpecs ==
    /\ call.op = "none"
    /\ UNCHANGED refreshVars
    /\ \E node \in SpecsDirs :
        call' = Called("mcp.scanSpecs", node, Ok(mcp_scanSpecs(node)))

Call_mcp_scanSchemas ==
    /\ call.op = "none"
    /\ UNCHANGED refreshVars
    /\ \E node \in SchemasDirs :
        call' = Called("mcp.scanSchemas", node, Ok(mcp_scanSchemas(node)))

Call_mcp_get_asdlc_artifacts ==
    /\ call.op = "none"
    /\ UNCHANGED refreshVars
    /\ \E root \in Roots :
        call' = Called("mcp.get_asdlc_artifacts", root,
                       mcp_get_asdlc_artifacts(root))

NextScan ==
    \/ Call_scanRules
    \/ Call_scanWorkspaceCommands
    \/ Call_scanGlobalCommands
    \/ Call_scanWorkspaceSkills
    \/ Call_scanGlobalSkills
    \/ Call_scanAgentsMd
    \/ Call_scanSpecs
    \/ Call_scanSchemas
    \/ Call_scanAll
    \/ Call_mcp_scanRules
    \/ Call_mcp_scanCommands
    \/ Call_mcp_get_asdlc_artifacts
    \/ Call_mcp_scanSchemas
    \/ Call_toRuleInfo
    \/ Call_parseSKILLMetadata
    \/ Call_getChildren
    \/ Call_mcp_scanSpecs
    \/ Call_getRule
    \/ Call_getCommand
    \/ Call_getSkill
    \/ Call_mcp_get_rule
    \/ Call_mcp_get_command
    \/ Call_mcp_get_skill

SpecScan == InitScan /\ [][NextScan]_vars

\* ------------------------------------------------------ scanner properties
\* The scanners that take one directory or file as their target.
TargetScans ==
    {"RulesScanner.scanRules", "scanWorkspaceCommands", "scanGlobalCommands",
     "scanWorkspaceSkills", "scanGlobalSkills", "scanAgentsMd", "scanSpecs",
     "scanSchemas", "mcp.scanRules"}

CanonicalEmpty(op) ==
    CASE op = "scanAgentsMd" -> emptyAgentsMdInfo
      [] op = "scanSpecs" -> emptySpecsInfo
      [] op = "scanSchemas" -> emptySchemasInfo
      [] OTHER -> <<>>

\* What scanSpecs and scanSchemas return for a directory that exists and whose
\* listing rejects: the directory is reported, with nothing in it.
ExistsButEmpty(op) ==
    IF op = "scanSpecs"
    THEN [exists |-> TRUE, path |-> "specs", specs |-> <<>>]
    ELSE [exists |-> TRUE, path |-> "schemas", schemas |-> <<>>]

\* C1 (as stated): no scanner call rejects, and a scan whose target is absent
\* or whose discovery call fails (stat rejects, or the directory cannot be
\* listed) returns the scanner's canonical empty value: an empty sequence, or
\* a record with exists = FALSE.
C1_DiscoveryFailureYieldsEmpty ==
    call.op \in TargetScans =>
        /\ ~call.result.threw
        /\ call.input.kind \in {"absent", "denied", "unlistable"} =>
               call.result.val = CanonicalEmpty(call.op)

\* C1 (amended): no scanner call rejects; a scan whose target is absent or
\* cannot be stat'ed returns the scanner's canonical empty value; a scan of a
\* directory that exists and cannot be listed returns the empty sequence,
\* except that scanSpecs and scanSchemas return a record with exists = TRUE,
\* the directory's path and an empty list.
C1_AbsentTargetYieldsEmpty ==
    call.op \in TargetScans =>
        /\ ~call.result.threw
        /\ call.input.kind \in {"absent", "denied"} =>
               call.result.val = CanonicalEmpty(call.op)
        /\ call.input.kind = "unlistable" =>
               call.result.val =
                   IF call.op \in {"scanSpecs", "scanSchemas"}
                   THEN ExistsButEmpty(call.op)
                   ELSE CanonicalEmpty(call.op)

C1_Witness ==
    /\ call.op = "scanSpecs"
    /\ call.input.kind = "unlistable"
    /\ ~call.result.threw
    /\ call.result.val.exists
    /\ call.result.val.specs = <<>>

\* C2: the record scanAll returns has hasAnyArtifacts equal to the
\* disjunction of the three exists flags, whatever the three nodes are.
C2_HasAnyArtifactsIsOr ==
    call.op = "scanAll" =>
        /\ ~call.result.threw
        /\ call.result.val.hasAnyArtifacts =
               (\/ call.result.val.agentsMd.exists
                \/ call.result.val.specs.exists
                \/ call.result.val.schemas.exists)

C2_Witness ==
    /\ call.op = "scanAll"
    /\ call.input.agentsMd.kind = "dir"
    /\ call.input.specs.kind = "file"
    /\ call.input.schemas.kind = "dir"
    /\ call.result.val.hasAnyArtifacts
    /\ ~call.result.val.agentsMd.exists
    /\ ~call.result.val.specs.exists

\* The files a rule scan and a command scan discover in a directory.
DiscoveredRuleFiles(dir) ==
    IF dir.kind # "dir" THEN <<>> ELSE SelectSeq(dir.entries, mcp_isRuleFile)

DiscoveredCommandFiles(dir) ==
    IF dir.kind # "dir" THEN <<>>
    ELSE SelectSeq(dir.entries,
                   LAMBDA e : e.type = "file" /\ e.name.ext = "md")

AllReadable(dir) ==
    [dir EXCEPT !.entries = [i \in 1..Len(dir.entries) |->
                                [dir.entries[i] EXCEPT !.readable = TRUE]]]

RecordFileName(rec) ==
    IF "fileName" \in DOMAIN rec THEN rec.fileName ELSE rec.path

\* C5: a rule scan returns one record per discovered rule file, in order;
\* an unreadable file's record keeps the file name and carries the two
\* sentinels, and a readable file's record is the one the scan returns when
\* every file is readable. Stated of the extension's scanner and of the
\* standalone server's scanRules.
C5_OneRecordPerRuleFile ==
    call.op \in {"RulesScanner.scanRules", "mcp.scanRules"} =>
        LET files == IF call.op = "mcp.scanRules"
                     THEN DiscoveredRuleFiles(call.input)
                     ELSE findFilesDeep(call.input, {"mdc", "md"})
            got == call.result.val
            clean == IF call.op = "mcp.scanRules"
                     THEN mcp_scanRules(AllReadable(call.input)).val
                     ELSE RulesScanner_scanRules(AllReadable(call.input)).val
        IN  /\ ~call.result.threw
            /\ Len(got) = Len(files)
            /\ \A i \in 1..Len(files) :
                   /\ RecordFileName(got[i]) = files[i].name
                   /\ files[i].readable => got[i] = clean[i]
                   /\ ~files[i].readable =>
                          /\ "content" \in DOMAIN got[i]
                          /\ got[i].content = ErrorReadingContent
                          /\ got[i].metadata.description = ErrorParsingFile

\* C6: a command scan returns one record per discovered command file; an
\* unreadable file's record keeps fileName and location and carries the
\* sentinel content, and the readable files' records are unaffected. Stated
\* of CommandsScanner.scanWorkspaceCommands and of the standalone server's
\* scanCommands (workspace directory, home directory empty).
C6_OneRecordPerCommandFile ==
    /\ call.op = "scanWorkspaceCommands" =>
           LET files == DiscoveredCommandFiles(call.input)
               got == call.result.val
               clean == scanWorkspaceCommands(AllReadable(call.input)).val
           IN  /\ ~call.result.threw
               /\ Len(got) = Len(files)
               /\ \A i \in 1..Len(files) :
                      /\ got[i].fileName = files[i].name
                      /\ got[i].location = "workspace"
                      /\ files[i].readable => got[i] = clean[i]
                      /\ ~files[i].readable =>
                             got[i].content = ErrorReadingContent
    /\ (call.op = "mcp.scanCommands" /\ call.input.globalDir.kind = "absent") =>
           LET files == SelectSeq(DiscoveredCommandFiles(call.input.dir),
                                  mcp_isCommandFile)
           IN  /\ ~call.result.threw
               /\ Len(call.result.val) = Len(files)

\* ------------------------------------------------------ refresh properties
Range(q) == {q[i] : i \in 1..Len(q)}

Registered(root) ==
    {StoredProjects[i] : i \in {j \in 1..Len(StoredProjects) :
                                   root = NoRoot \/ StoredProjects[j].path # root}}

\* The keys of a complete aggregate: the current workspace, when a folder is
\* open, and every stored project that is not that folder.
ExpectedKeys(root) ==
    {p.id : p \in Registered(root)}
    \cup (IF root = NoRoot THEN {} ELSE {"current-workspace"})

ScanOf(r, path) ==
    ScanProjectRoot(DiskOf(disk[path]), globals[r].globalCommands,
                    globals[r].globalSkills)

AllEmpty(entry) ==
    /\ entry.rules = <<>>
    /\ entry.commands = <<>>
    /\ entry.skills = <<>>
    /\ ~entry.asdlcArtifacts.agentsMd.exists
    /\ ~entry.asdlcArtifacts.specs.exists
    /\ ~entry.asdlcArtifacts.schemas.exists
    /\ ~entry.asdlcArtifacts.hasAnyArtifacts

\* C3: in every run, the entry of a stored project whose scan rejects is
\* all-empty, the entry of every other stored project is what its own scan
\* returns, and a run that has ended holds an entry for every stored project
\* that is not the current workspace.
C3_FailedProjectIsolated ==
    \A r \in Runs :
        LET m == maps[NewMap(r)]
        IN  /\ \A p \in Registered(workspaceRoot) :
                   p.id \in DOMAIN m =>
                       IF ScanOf(r, p.path).threw
                       THEN AllEmpty(m[p.id])
                       ELSE m[p.id] = ScanOf(r, p.path).val
            /\ pc[r] = "done" =>
                   \A p \in Registered(workspaceRoot) : p.id \in DOMAIN m

C3_Witness ==
    \E r \in Runs :
        /\ pc[r] = "done"
        /\ disk["/p1"] = "locked"
        /\ globals[r].globalCommands # <<>>
        /\ AllEmpty(maps[NewMap(r)]["p1"])
        /\ maps[NewMap(r)]["p2"].rules # <<>>

\* C4: a run whose current-workspace scan rejected goes on: it holds an
\* all-empty entry for the current workspace and does not end in the catch
\* block without a tree update.
C4_WorkspaceFailureIsolated ==
    \A r \in Runs :
        rejected[r] =>
            /\ pc[r] # "failed"
            /\ "current-workspace" \in DOMAIN maps[NewMap(r)]
            /\ AllEmpty(maps[NewMap(r)]["current-workspace"])

\* C7: a run calls updateData at most once, and only as its last step, and
\* the Map the tree holds is at every moment either the initial empty Map or
\* a complete aggregate.
C7_SingleCompleteUpdate ==
    /\ \A r \in Runs :
           /\ Cardinality({i \in 1..Len(applyLog) : applyLog[i] = r}) <= 1
           /\ r \in Range(applyLog) => pc[r] = "done"
    /\ tree.projectData # 0 =>
           DOMAIN maps[tree.projectData] = ExpectedKeys(workspaceRoot)

C7_Witness ==
    /\ workspaceRoot # NoRoot
    /\ applyLog = <<1>>
    /\ DOMAIN maps[tree.projectData] = {"current-workspace", "p1", "p2"}
    /\ InFlight(2)

\* C8: a run in flight leaves flight only by ending (its update made, or its
\* own workspace scan rejected), whatever other runs start; every run that
\* ended normally made its update; and the tree holds the Map and the project
\* list of the run that updated last.
C8_NoRunCancelled ==
    \A r \in Runs :
        InFlight(r) =>
            \/ InFlight(r)'
            \/ pc'[r] = "done" /\ r \in Range(applyLog')
            \/ pc'[r] = "failed" /\ rejected'[r]

C8_LastUpdateStands ==
    /\ \A r \in Runs : pc[r] = "done" => r \in Range(applyLog)
    /\ applyLog # <<>> =>
           /\ tree.projectData = NewMap(Last(applyLog))
           /\ tree.projects = AllProjects(StoredProjects, workspaceRoot)

\* C8: no run is cancelled, every run that ends normally makes its update,
\* and the tree holds what the last update gave it.
C8_LastWriteWins == [][C8_NoRunCancelled]_vars /\ []C8_LastUpdateStands

C8_Witness ==
    /\ applyLog = <<2, 1>>
    /\ pc[1] = "done"
    /\ pc[2] = "done"
    /\ tree.projectData = NewMap(1)
    /\ maps[1] # maps[2]

\* The runs are over, at least one made its update, and no watcher event is
\* waiting.
Quiescent ==
    /\ events = 0
    /\ \A r \in Runs : pc[r] \in {"idle", "done"}
    /\ applyLog # <<>>

\* The aggregate a run over the disk as it is now builds.
AggregateOf(root, d) ==
    LET g == ScanGlobals(root, DiskOf(d[HomePath]))
        scanned(path) == ScanProjectRoot(DiskOf(d[path]), g.globalCommands,
                                         g.globalSkills)
        byKey(k) == IF k = "current-workspace" THEN root
                    ELSE (CHOOSE p \in Registered(root) : p.id = k).path
    IN  [k \in ExpectedKeys(root) |->
            IF scanned(byKey(k)).threw
            THEN FailedProjectData(g.globalCommands, g.globalSkills)
            ELSE scanned(byKey(k)).val]

\* C9: once no event is waiting and every started run has ended, the Map the
\* tree holds equals the aggregate of the disk as it is.
C9_TreeMatchesFinalDisk ==
    Quiescent => maps[tree.projectData] = AggregateOf(workspaceRoot, disk)

\* C10: the Map the tree holds after an update is the Map object created by
\* the run that made the update, an object never handed to the tree before
\* and written by that run alone; and a Map that has been handed to the tree
\* is never written again.
DeliveredMaps == {tree.projectData} \cup {NewMap(applyLog[i]) : i \in 1..Len(applyLog)}

C10_DeliveredMapsFrozen ==
    \A m \in DeliveredMaps : maps'[m] = maps[m]

C10_FreshMap ==
    applyLog # <<>> =>
        /\ tree.projectData = NewMap(Last(applyLog))
        /\ tree.projectData # 0
        /\ \A i, j \in 1..Len(applyLog) :
               i # j => NewMap(applyLog[i]) # NewMap(applyLog[j])
        /\ writers[tree.projectData] \subseteq {Last(applyLog)}

\* C10: delivered Maps are never written again, and every update installs a
\* Map of the updating run's own.
C10_MapReplacedWholesale == [][C10_DeliveredMapsFrozen]_vars /\ []C10_FreshMap

C10_Witness ==
    /\ applyLog = <<1, 2>>
    /\ tree.projectData = 2
    /\ maps[1] # maps[2]
    /\ writers[2] = {2}

\* A run that is past its await of the global scans.
PastGlobalScans(r) == pc[r] \in {"workspace", "projects", "scan", "done", "failed"}

\* C11: a run that is past the global scans has called each of them exactly
\* once, and every entry of its Map holds the global command list and the
\* global skill list those calls returned.
C11_GlobalsScannedOnce ==
    \A r \in Runs :
        PastGlobalScans(r) =>
            /\ globalScans[r] = 1
            /\ \A k \in DOMAIN maps[NewMap(r)] :
                   /\ maps[NewMap(r)][k].globalCommands = globals[r].globalCommands
                   /\ maps[NewMap(r)][k].globalSkills = globals[r].globalSkills

\* C12: whenever scanAgentsMd answers exists = FALSE, the record has the two
\* fields exists and sections only, and sections is the empty list: path,
\* mission, corePhilosophy, techStack and operationalBoundaries are absent.
C12_EmptyConstitutionShape ==
    (call.op = "scanAgentsMd" /\ ~call.result.val.exists) =>
        /\ DOMAIN call.result.val = {"exists", "sections"}
        /\ call.result.val.sections = <<>>

C12_Witness ==
    /\ call.op = "scanAgentsMd"
    /\ call.input.kind = "dir"
    /\ ~call.result.val.exists
    /\ DOMAIN call.result.val = {"exists", "sections"}

\* The node is a directory that stat reports, listable or not.
IsDirectory(kind) == kind \in {"dir", "unlistable"}

\* C13: specs.exists (schemas.exists) is TRUE exactly when specs/ (schemas/)
\* is a directory, however many records it yields; stated of scanSpecs and
\* scanSchemas of the extension and of the answer of the standalone server's
\* get_asdlc_artifacts.
C13_ExistsIffDirectory ==
    /\ call.op \in {"scanSpecs", "scanSchemas"} =>
           call.result.val.exists = IsDirectory(call.input.kind)
    /\ call.op = "mcp.get_asdlc_artifacts" =>
           /\ call.result.val.specs.exists = IsDirectory(call.input.specs.kind)
           /\ call.result.val.schemas.exists =
                  IsDirectory(call.input.schemas.kind)

\* The .json files directly inside schemas/.
JsonFiles(node) ==
    IF node.kind # "dir" THEN <<>>
    ELSE SelectSeq(node.entries,
                   LAMBDA e : e.type = "file" /\ e.name.ext = "json")

SchemaIdAbsent(rec) ==
    "schemaId" \notin DOMAIN rec \/ rec.schemaId = Undefined

\* The list of schema records a call returned.
SchemaRecords ==
    IF call.op = "scanSchemas" THEN call.result.val.schemas
    ELSE call.result.val

\* C14: a schema scan returns one record per .json file directly inside
\* schemas/, in order and under the file's own name, whether or not the
\* content parses; the record of a file whose content is not valid JSON has
\* no schemaId, and the record of a readable file with "$id" has it. Stated
\* of the extension's scanSchemas and of the standalone server's.
C14_OneRecordPerSchemaFile ==
    call.op \in {"scanSchemas", "mcp.scanSchemas"} =>
        LET files == JsonFiles(call.input)
            got == SchemaRecords
        IN  /\ ~call.result.threw
            /\ Len(got) = Len(files)
            /\ \A i \in 1..Len(files) :
                   /\ got[i].name = IF call.op = "scanSchemas" THEN files[i].name
                                    ELSE files[i].name.base
                   /\ files[i].json = "invalid" => SchemaIdAbsent(got[i])
                   /\ (files[i].readable /\ files[i].json = "$id") =>
                          ~SchemaIdAbsent(got[i])

C14_Witness ==
    /\ call.op = "scanSchemas"
    /\ Len(JsonFiles(call.input)) = 2
    /\ JsonFiles(call.input)[1].readable
    /\ JsonFiles(call.input)[1].json = "invalid"
    /\ JsonFiles(call.input)[2].readable
    /\ JsonFiles(call.input)[2].json = "$id"
    /\ Len(call.result.val.schemas) = 2
    /\ SchemaIdAbsent(call.result.val.schemas[1])
    /\ ~SchemaIdAbsent(call.result.val.schemas[2])

\* The bucket of a rule: always when alwaysApply is true; otherwise glob when
\* there is at least one pattern, manual when there is none.
Bucket(alwaysApply, anyGlob) ==
    IF alwaysApply THEN "always" ELSE IF anyGlob THEN "glob" ELSE "manual"

\* C15: every rule is classified into the one bucket its frontmatter gives:
\* always, glob or manual; an explicitly empty globs list counts as no
\* pattern. Stated of toRuleInfo and of the standalone server's scanRules.
C15_RuleClassification ==
    /\ call.op = "toRuleInfo" =>
           LET md == call.input.metadata
           IN  call.result.val.type =
                   Bucket("alwaysApply" \in DOMAIN md /\ md.alwaysApply,
                          "globs" \in DOMAIN md /\ md.globs # <<>>)
    /\ call.op = "mcp.scanRules" =>
           LET files == DiscoveredRuleFiles(call.input)
               got == call.result.val
           IN  \A i \in 1..Len(got) :
                   got[i].type = Bucket(files[i].fm.alwaysApply = "true",
                                        files[i].fm.globs = "inline")

\* The .md files directly inside the commands directory, README.md left out.
CommandFilesButReadme(dir) ==
    SelectSeq(DiscoveredCommandFiles(dir),
              LAMBDA e : e.name # FileName("README", "md"))

\* C16: a command scan returns no record for README.md and one record, in
\* order, for every other .md file directly inside the commands directory.
\* Stated of CommandsScanner.scanWorkspaceCommands and of the standalone
\* server's scanCommands (home directory absent).
C16_ReadmeExcluded ==
    /\ call.op = "scanWorkspaceCommands" =>
           LET files == CommandFilesButReadme(call.input)
               got == call.result.val
           IN  /\ Len(got) = Len(files)
               /\ \A i \in 1..Len(got) :
                      got[i].fileName # FileName("README", "md")
    /\ (call.op = "mcp.scanCommands" /\ call.input.globalDir.kind = "absent") =>
           LET files == CommandFilesButReadme(call.input.dir)
               got == call.result.val
           IN  /\ Len(got) = Len(files)
               /\ \A i \in 1..Len(got) :
                      got[i].path # FileName("README", "md")

\* The .mdc and .md files under .cursor/rules, at every depth.
AllRuleFiles(dir) == findFilesDeep(dir, {"mdc", "md"})

EveryRuleFileReadable(dir) ==
    \A i \in 1..Len(AllRuleFiles(dir)) : AllRuleFiles(dir)[i].readable

\* C17: when every rule file can be read, the rule scan returns a record for
\* every .mdc and .md file at any depth under .cursor/rules, nested
\* subdirectories included, and for no other file. Stated of the extension's
\* rule scan and of the standalone server's scanRules.
C17_RulesFoundAtEveryDepth ==
    (/\ call.op \in {"RulesScanner.scanRules", "mcp.scanRules"}
     /\ EveryRuleFileReadable(call.input)) =>
        LET files == AllRuleFiles(call.input)
            got == call.result.val
        IN  /\ Len(got) = Len(files)
            /\ \A i \in 1..Len(got) : RecordFileName(got[i]) = files[i].name

\* The file has a line written as a heading whose text contains "operational
\* boundaries".
HasBoundariesHeading(content) ==
    \E i \in 1..Len(content) :
        content[i].level > 0 /\ TitleIncludesBoundaries(content[i].title)

\* C18: for every constitution file, operationalBoundaries is absent exactly
\* when the file has no heading containing "operational boundaries"; when it
\* is present it holds the three tier lists, an empty list for a tier without
\* items.
C18_BoundariesIffHeading ==
    (call.op = "scanAgentsMd" /\ call.result.val.exists) =>
        LET info == call.result.val
        IN  /\ ("operationalBoundaries" \in DOMAIN info)
                   = HasBoundariesHeading(call.input.content)
            /\ "operationalBoundaries" \in DOMAIN info =>
                   DOMAIN info.operationalBoundaries
                       = {"tier1Always", "tier2Ask", "tier3Never"}

\* C19: for every SKILL.md text, frontmatter with at least one key gives
\* metadata holding recognised keys only, each with the frontmatter's value;
\* frontmatter absent or empty and a first top-level heading give metadata
\* that is the title alone, equal to the heading's text; neither gives no
\* metadata at all.
C19_SkillMetadataPrecedence ==
    call.op = "parseSKILLMetadata" =>
        LET content == call.input
            metadata == call.result.val
        IN  /\ content.frontmatter = "keys" =>
                   /\ metadata.present
                   /\ DOMAIN metadata.value \subseteq RecognisedSkillKeys
                   /\ \A k \in DOMAIN metadata.value :
                          /\ k \in DOMAIN content.data
                          /\ metadata.value[k] = content.data[k]
            /\ (content.frontmatter \in {"absent", "empty"}
                /\ content.heading # "none") =>
                   /\ metadata.present
                   /\ DOMAIN metadata.value = {"title"}
                   /\ metadata.value.title = content.heading
            /\ (content.frontmatter \in {"absent", "empty"}
                /\ content.heading = "none") =>
                   ~metadata.present

C19_Witness ==
    /\ call.op = "parseSKILLMetadata"
    /\ call.input.frontmatter = "empty"
    /\ call.input.heading = "none"
    /\ ~call.result.val.present

GetOps ==
    {"getRule", "getCommand", "getSkill",
     "mcp.get_rule", "mcp.get_command", "mcp.get_skill"}

\* The entries of the directories a get-by-name call was given.
EntriesSeen(input) ==
    (IF "dir" \in DOMAIN input THEN Range(input.dir.entries) ELSE {})
    \cup (IF "globalDir" \in DOMAIN input THEN Range(input.globalDir.entries)
          ELSE {})

\* Nothing on the disk bears the requested name, with any extension, and the
\* name is no part of a path either.
NoArtifactMatches ==
    LET name == call.input.args.name
        baseOf(e) == IF call.op \in {"getSkill", "mcp.get_skill"}
                     THEN e.name ELSE e.name.base
    IN  /\ name.base \notin PathFragments
        /\ \A e \in EntriesSeen(call.input) :
               /\ name.base # baseOf(e)
               /\ <<name.base, baseOf(e)>> \notin Substrings

\* C20: a get-rule, get-command or get-skill call, on the extension's tool
\* handlers and on the standalone server, whose requested name matches no
\* artifact returns null: it neither throws nor answers with an error.
C20_NotFoundIsNull ==
    (call.op \in GetOps /\ NoArtifactMatches) => call.result = Ok(Null)

\* The records an extension tool searches, in the order find visits them.
RecordsSearched ==
    CASE call.op = "getRule" ->
           RulesScanner_scanRules(call.input.dir).val
      [] call.op = "getCommand" ->
           scanWorkspaceCommands(call.input.dir).val
           \o scanGlobalCommands(call.input.globalDir).val
      [] call.op = "getSkill" ->
           scanWorkspaceSkills(call.input.dir).val
           \o scanGlobalSkills(call.input.globalDir).val

\* The name of a scanned record without its extension.
BareName(rec) ==
    IF call.op = "getSkill" THEN rec.fileName ELSE rec.fileName.base

\* C21: when some scanned artifact's file or directory name equals the
\* requested name, extension and case aside, the extension's get-by-name
\* returns an artifact of that name; an artifact whose path merely contains
\* the requested text is returned only when none matches by name.
C21_NameMatchBeforePathMatch ==
    (/\ call.op \in {"getRule", "getCommand", "getSkill"}
     /\ "dir" \in DOMAIN call.input
     /\ \E i \in 1..Len(RecordsSearched) :
            BareName(RecordsSearched[i]) = call.input.args.name.base) =>
        /\ call.result.val # Null
        /\ call.result.val.name = call.input.args.name.base

\* =============================================================== SpecTwice
\* Two queries in a row on one project root that does not change between
\* them; the clock may advance from the first to the second.
Clock == 1..MaxClock

ContextProjects ==
    [rules : {d \in LookupRuleDirs : Len(d.entries) <= 1},
     commands : {AbsentDir, [kind |-> "dir", entries |->
                    <<[name |-> FileName("a", "md"), type |-> "file",
                       readable |-> TRUE]>>]},
     globalCommands : {AbsentDir},
     skills : {AbsentDir, [kind |-> "dir", entries |->
                  <<[name |-> "s1", type |-> "dir", skillMd |-> "file"]>>]},
     globalSkills : {AbsentDir},
     root : {r \in Roots : r.specs.kind = "dir" /\ r.schemas.kind = "absent"}]

\* A query: the scans keep nothing between two calls, so its outcome is
\* computed from the input and the time alone.
Query(op, input, now) ==
    CASE op = "scanAll" -> scanAll(input)
      [] op = "getProjectContext" ->
           McpTools_getProjectContext(input.args, input.folder,
                                      input.project, now)

First_scanAll ==
    /\ call.op = "none"
    /\ UNCHANGED refreshVars
    /\ \E root \in Roots, now \in Clock :
        call' = [op |-> "scanAll", input |-> root, now |-> now,
                 result |-> Query("scanAll", root, now)]

First_getProjectContext ==
    /\ call.op = "none"
    /\ UNCHANGED refreshVars
    /\ \E project \in ContextProjects, folder \in {NoRoot, WorkspacePath}, now \in Clock :
        LET input == [args |-> [x \in {} |-> x], folder |-> folder,
                      project |-> project]
        IN  call' = [op |-> "getProjectContext", input |-> input, now |-> now,
                     result |-> Query("getProjectContext", input, now)]

Again ==
    /\ call.op \in {"scanAll", "getProjectContext"}
    /\ "second" \notin DOMAIN call
    /\ UNCHANGED refreshVars
    /\ \E later \in call.now..MaxClock :
        call' = [op |-> call.op, input |-> call.input, now |-> call.now,
                 result |-> call.result, later |-> later,
                 second |-> Query(call.op, call.input, later)]

NextTwice ==
    \/ First_scanAll
    \/ First_getProjectContext
    \/ Again

SpecTwice == InitScan /\ [][NextTwice]_vars

\* An outcome without the time stamp of the project context.
Unstamped(outcome) ==
    IF outcome.threw THEN outcome
    ELSE IF "timestamp" \in DOMAIN outcome.val
    THEN Ok([k \in DOMAIN outcome.val \ {"timestamp"} |-> outcome.val[k]])
    ELSE outcome

CategoriesShown(items) ==
    {items[i].category : i \in {j \in 1..Len(items) :
                                  "category" \in DOMAIN items[j]}}

\* The list a section of the tree shows.
SectionList(category, projectData) ==
    CASE category = "rules" -> listOf(projectData, "rules")
      [] category = "commands-workspace" -> listOf(projectData, "commands")
      [] category = "commands-global" -> listOf(projectData, "globalCommands")
      [] category = "skills-workspace" -> listOf(projectData, "skills")
      [] category = "skills-global" -> listOf(projectData, "globalSkills")
      [] category = "specs" ->
           IF "asdlcArtifacts" \in DOMAIN projectData
           THEN projectData.asdlcArtifacts.specs.specs ELSE <<>>
      [] category = "schemas" ->
           IF "asdlcArtifacts" \in DOMAIN projectData
           THEN projectData.asdlcArtifacts.schemas.schemas ELSE <<>>

ListSections ==
    {"rules", "commands-workspace", "commands-global", "skills-workspace",
     "skills-global", "specs", "schemas"}

\* C23: under every project the node of each of the seven artifact sections
\* is shown by its parent, whatever the project holds, and a section whose
\* list is empty shows one empty-state node.
C23_SectionsAlwaysShown ==
    call.op = "getChildren" =>
        LET category == call.input.category
            shown == CategoriesShown(call.result.val)
        IN  /\ category = "cursor" => {"commands", "rules", "skills"} \subseteq shown
            /\ category = "commands" =>
                   {"commands-workspace", "commands-global"} \subseteq shown
            /\ category = "skills" =>
                   {"skills-workspace", "skills-global"} \subseteq shown
            /\ category = "agents" => {"specs", "schemas"} \subseteq shown
            /\ (/\ category \in ListSections
                /\ Len(SectionList(category, call.input.projectData)) = 0) =>
                   /\ Len(call.result.val) = 1
                   /\ DOMAIN call.result.val[1] = {"label"}

\* The immediate subdirectories of specs/ that hold a regular file named
\* spec.md, readable or not, in directory order.
SubdirectoriesWithSpec(node) ==
    IF node.kind # "dir" THEN <<>>
    ELSE SelectSeq(node.entries,
                   LAMBDA e : e.type = "dir" /\ e.specMd \in {"file", "unreadable"})

\* C25: a specs scan, of the extension or of the standalone server, returns
\* one record for each immediate subdirectory of specs/ holding a regular
\* file spec.md, under the subdirectory's name, and none for another entry.
C25_OneRecordPerSpecDirectory ==
    call.op \in {"scanSpecs", "mcp.scanSpecs"} =>
        LET dirs == SubdirectoriesWithSpec(call.input)
            got == IF call.op = "scanSpecs" THEN call.result.val.specs
                   ELSE call.result.val
        IN  /\ Len(got) = Len(dirs)
            /\ \A i \in 1..Len(dirs) : got[i].domain = dirs[i].name

\* The lines of a file from the heading of its "operational boundaries"
\* section to the line before the next section of level 2, by the start and
\* end lines the scan reports for the sections.
BoundariesLines(content, sections) ==
    LET at == CHOOSE i \in 1..Len(sections) :
                  /\ TitleIncludesBoundaries(sections[i].title)
                  /\ \A j \in 1..(i - 1) :
                         ~TitleIncludesBoundaries(sections[j].title)
        later == {j \in (at + 1)..Len(sections) : sections[j].level = 2}
        last == IF later = {} THEN Len(content)
                ELSE sections[CHOOSE j \in later : \A k \in later : j <= k].startLine
    IN  [from |-> sections[at].startLine + 1, to |-> last]

\* The bullets a tier is expected to list: those below the tier's first
\* sub-heading in the section and above the next line that is a heading of
\* level 2 or 3.
TierBullets(content, range, title) ==
    LET heads == {i \in range.from..range.to :
                    content[i].level \in {2, 3} /\ content[i].title = title}
        head == CHOOSE i \in heads : \A k \in heads : i <= k
        stops == {i \in (head + 1)..range.to : content[i].level \in {2, 3}}
        stop == IF stops = {} THEN range.to + 1
                ELSE CHOOSE i \in stops : \A k \in stops : i <= k
        at == {i \in (head + 1)..(stop - 1) : content[i].bullet # "none"}
    IN  IF heads = {} THEN {} ELSE at

\* A list is the texts of the lines of a set, in document order.
ListsInOrder(list, content, at) ==
    /\ Len(list) = Cardinality(at)
    /\ \A i \in 1..Len(list) :
           \E k \in at : /\ list[i] = content[k].title
                         /\ Cardinality({j \in at : j < k}) = i - 1

HeadingLinesOf(content) == {i \in 1..Len(content) : content[i].level > 0}

\* C27: for every constitution file, the sections list has one entry per
\* heading line in increasing startLine order; each section ends on the line
\* before the next section starts, the last one on the last line of the
\* file, and no section ends before it starts.
C27_SectionsCoverHeadings ==
    (call.op = "scanAgentsMd" /\ call.result.val.exists) =>
        LET content == call.input.content
            sections == call.result.val.sections
            heads == HeadingLinesOf(content)
        IN  /\ Len(sections) = Cardinality(heads)
            /\ \A k \in 1..Len(sections) :
                   /\ sections[k].startLine + 1 \in heads
                   /\ Cardinality({h \in heads : h < sections[k].startLine + 1})
                          = k - 1
                   /\ sections[k].endLine =
                          IF k < Len(sections)
                          THEN sections[k + 1].startLine - 1
                          ELSE Len(content) - 1
                   /\ sections[k].startLine <= sections[k].endLine

\* C28: after every successful refresh, every project of the list handed to
\* the tree has an entry under its id in the Map handed with it, and every
\* key of the Map is the id of a project of the list, a stored project whose
\* path is the current workspace's included.
C28_ListAndMapAgree ==
    applyLog # <<>> =>
        {tree.projects[i].id : i \in 1..Len(tree.projects)}
            = DOMAIN maps[tree.projectData]

\* What updateData leaves in the tree when the run r calls it.
DeliveryOf(r) ==
    LET allProjects == AllProjects(StoredProjects, workspaceRoot)
    IN  [projectData |-> NewMap(r), projects |-> allProjects,
         currentProject |-> FinalCurrentProject(allProjects)]

C29_FailureLeavesTree ==
    \A r \in Runs :
        (pc[r] # "failed" /\ pc'[r] = "failed") =>
            /\ tree' = tree
            /\ maps'[tree.projectData] = maps[tree.projectData]
            /\ applyLog' = applyLog

C29_TreeWhole ==
    /\ \A r \in Runs : pc[r] = "failed" => r \notin Range(applyLog)
    /\ IF applyLog = <<>>
       THEN tree = [projectData |-> 0, projects |-> <<>>, currentProject |-> "null"]
       ELSE tree = DeliveryOf(Last(applyLog))

\* C29: a refresh that fails before its tree update leaves the tree's Map,
\* project list and current project as the last successful refresh left
\* them, and the tree never holds a part of an update: its three fields are
\* the initial ones or those of the last update made.
C29_FailedRefreshChangesNothing == [][C29_FailureLeavesTree]_vars /\ []C29_TreeWhole

C29_Witness ==
    /\ applyLog = <<1>>
    /\ pc[2] = "failed"
    /\ tree = DeliveryOf(1)
    /\ "current-workspace" \in DOMAIN maps[tree.projectData]

\* ================================================================ SpecLife
\* Calls of activate and deactivate in any order. The window's first folder
\* changes only while the extension is not activated; after deactivate the
\* host may dispose what the context's subscriptions hold.
idleVars == <<call, disk, changes, events, pc, idx, globals, globalScans,
              rejected, maps, writers, applyLog>>

FolderChange ==
    /\ ~isActivated
    /\ workspaceRoot' = IF workspaceRoot = NoRoot THEN WorkspacePath ELSE NoRoot
    /\ lastCall' = "folder change"
    /\ UNCHANGED <<idleVars, tree, isActivated, fileWatcher, watcherSets,
                   subscriptions>>

Activate ==
    /\ workspaceRoot # NoRoot /\ ~isActivated => Len(watcherSets) < MaxActivations
    /\ LET a == activate(isActivated, workspaceRoot, fileWatcher, watcherSets)
       IN  /\ isActivated' = a.isActivated
           /\ fileWatcher' = a.fileWatcher
           /\ watcherSets' = a.watcherSets
           /\ lastCall' = IF a.ignored THEN "activate ignored" ELSE "activate"
           \* treeProvider = new ProjectTreeProvider(new Map(), [], null), and
           \* context.subscriptions.push(..., fileWatcher!, ...)
           /\ tree' = IF a.ignored THEN tree
                      ELSE [projectData |-> 0, projects |-> <<>>,
                            currentProject |-> "null"]
           /\ subscriptions' = IF a.ignored THEN subscriptions
                               ELSE <<a.fileWatcher>>
    /\ UNCHANGED <<idleVars, workspaceRoot>>

Deactivate ==
    /\ fileWatcher # 0 => watcherSets[fileWatcher].handle < MaxDisposals
    /\ isActivated' = FALSE
    /\ watcherSets' = disposeHandle(watcherSets, fileWatcher)
    /\ lastCall' = "deactivate"
    /\ UNCHANGED <<idleVars, workspaceRoot, tree, fileWatcher, subscriptions>>

DisposeSubscriptions ==
    /\ ~isActivated
    /\ subscriptions # <<>>
    /\ subscriptions[1] # 0 => watcherSets[subscriptions[1]].handle < MaxDisposals
    /\ watcherSets' = disposeHandle(watcherSets, subscriptions[1])
    /\ subscriptions' = <<>>
    /\ lastCall' = "subscriptions disposed"
    /\ UNCHANGED <<idleVars, workspaceRoot, tree, isActivated, fileWatcher>>

NextLife ==
    \/ FolderChange
    \/ Activate
    \/ Deactivate
    \/ DisposeSubscriptions

SpecLife == InitScan /\ [][NextLife]_vars

LiveSets == {i \in 1..Len(watcherSets) : Live(watcherSets[i])}

C30_IgnoredActivateCreatesNothing ==
    (isActivated /\ lastCall' \in {"activate", "activate ignored"}) =>
        /\ lastCall' = "activate ignored"
        /\ watcherSets' = watcherSets
        /\ fileWatcher' = fileWatcher

C30_OneLiveSet ==
    /\ Cardinality(LiveSets) <= 1
    /\ ~isActivated => LiveSets = {}

\* C30: whatever the order of the activate and deactivate calls, at most one
\* set of workspace watchers is live; activate on an activated extension
\* creates nothing, and after deactivate no watcher is live.
C30_AtMostOneWatcherSet ==
    [][C30_IgnoredActivateCreatesNothing]_vars /\ []C30_OneLiveSet

C30_Witness ==
    /\ Len(watcherSets) = 2
    /\ ~Live(watcherSets[1])
    /\ Live(watcherSets[2])
    /\ lastCall = "activate ignored"

====
